---------------------------- MODULE Spec2Model ----------------------------
(***************************************************************************)
(* A model of the SnapTally receipt pipeline: the price normaliser         *)
(* (cleanPrice), the Bedrock stage that interprets the model's response    *)
(* (handler, createFallbackData, enhanceParsedData) and the heuristic      *)
(* receipt parsers (parseReceiptTextIntelligent, parseReceiptText).        *)
(*                                                                         *)
(* A JavaScript string is a sequence of one-character strings, so that     *)
(* the regular expressions of the source are matched character by          *)
(* character.  A regular expression is a syntax tree, matched by a         *)
(* backtracking matcher that returns its successes in the order a          *)
(* backtracking engine tries them.                                         *)
(***************************************************************************)
EXTENDS Integers, Sequences, FiniteSets, TLC

(***************************************************************************)
(* Characters                                                              *)
(***************************************************************************)
DigitSeq == <<"0", "1", "2", "3", "4", "5", "6", "7", "8", "9">>
UpperSeq == <<"A", "B", "C", "D", "E", "F", "G", "H", "I", "J", "K", "L", "M",
              "N", "O", "P", "Q", "R", "S", "T", "U", "V", "W", "X", "Y", "Z">>
LowerSeq == <<"a", "b", "c", "d", "e", "f", "g", "h", "i", "j", "k", "l", "m",
              "n", "o", "p", "q", "r", "s", "t", "u", "v", "w", "x", "y", "z">>

Range(f) == {f[x] : x \in DOMAIN f}

Digits == Range(DigitSeq)
Uppers == Range(UpperSeq)
Lowers == Range(LowerSeq)
Letters == Uppers \cup Lowers
\* \s of the regular expressions: the blank and the tab (a line holds no newline)
Spaces == {" ", "\t"}
\* \w of the regular expressions
WordChars == Letters \cup Digits \cup {"_"}

\* String.prototype.toLowerCase, one character at a time
LowerChar(c) ==
  IF c \in Uppers THEN LowerSeq[CHOOSE i \in 1..26 : UpperSeq[i] = c] ELSE c

\* String.prototype.toUpperCase, one character at a time
UpperChar(c) ==
  IF c \in Lowers THEN UpperSeq[CHOOSE i \in 1..26 : LowerSeq[i] = c] ELSE c

ToLowerCase(s) == [i \in 1..Len(s) |-> LowerChar(s[i])]
ToUpperCase(s) == [i \in 1..Len(s) |-> UpperChar(s[i])]

\* the value of a digit character
DigitVal(c) == (CHOOSE i \in 1..10 : DigitSeq[i] = c) - 1

\* s.substring(from - 1, to - 1): the characters from..to-1 (1-based, to exclusive)
Slice(s, from, to) == [i \in 1..(to - from) |-> s[from + i - 1]]

\* String.prototype.trim
RECURSIVE TrimLeft(_)
TrimLeft(s) ==
  IF s # <<>> /\ Head(s) \in Spaces THEN TrimLeft(Tail(s)) ELSE s

RECURSIVE TrimRight(_)
TrimRight(s) ==
  IF s # <<>> /\ s[Len(s)] \in Spaces THEN TrimRight(Slice(s, 1, Len(s))) ELSE s

Trim(s) == TrimRight(TrimLeft(s))

\* String.prototype.includes
Includes(s, w) ==
  \E p \in 1..(Len(s) - Len(w) + 1) : \A j \in 1..Len(w) : s[p + j - 1] = w[j]

(***************************************************************************)
(* Regular expressions.  A node is one of                                  *)
(*   set  : one character of cs          nset : one character not in cs    *)
(*   cat  : rs[1] rs[2] ...              alt  : rs[1] | rs[2] | ...        *)
(*   rep  : r{min,max}, greedy (max = -1: unbounded)                       *)
(*   lazy : r{min,max}?, r a class: the fewest characters first            *)
(*   grp  : capture group n around r                                       *)
(*   bol  : ^      eol : $      wb : \b                                    *)
(***************************************************************************)
Cs(S) == [k |-> "set", cs |-> S]
NCs(S) == [k |-> "nset", cs |-> S]
Ch(c) == Cs({c})
Cat(rs) == [k |-> "cat", rs |-> rs]
Alt(rs) == [k |-> "alt", rs |-> rs]
Rep(r, lo, hi) == [k |-> "rep", r |-> r, min |-> lo, max |-> hi]
Star(r) == Rep(r, 0, -1)
Plus(r) == Rep(r, 1, -1)
Opt(r) == Rep(r, 0, 1)
Lazy(r, lo, hi) == [k |-> "lazy", r |-> r, min |-> lo, max |-> hi]
LazyStar(r) == Lazy(r, 0, -1)
Grp(n, r) == [k |-> "grp", n |-> n, r |-> r]
Bol == [k |-> "bol"]
Eol == [k |-> "eol"]
Wb == [k |-> "wb"]
\* a literal word
Lit(w) == Cat([i \in 1..Len(w) |-> Ch(w[i])])
D == Cs(Digits)
Ws == Cs(Spaces)

\* the capture groups before a match: none has taken part
NoGroups == [n \in 1..3 |-> <<0, 0>>]

IsWordAt(s, i) == i >= 1 /\ i <= Len(s) /\ s[i] \in WordChars

\* one character against a class; ci: the i flag
CharIn(c, cs, ci) ==
  IF ci THEN LowerChar(c) \in cs \/ UpperChar(c) \in cs ELSE c \in cs

NoMatch == [found |-> FALSE, s |-> 0, e |-> 0, g |-> NoGroups]

IsClass(r) == r.k \in {"set", "nset"}

\* the least and the greatest of a set of integers
Min(S) == CHOOSE x \in S : \A y \in S : x <= y

Max(S) == CHOOSE x \in S : \A y \in S : y <= x

ClassHas(r, c, ci) == (r.k = "set") = CharIn(c, r.cs, ci)

\* how many characters of s from i, at most max (-1: any number), are in class r
RunLength(r, s, i, ci, max) ==
  LET Upto(lim) ==
        LET Before(breaks) == IF breaks = {} THEN lim ELSE Min(breaks) - i
        IN  Before({j \in i..(i + lim - 1) : ~ClassHas(r, s[j], ci)})
  IN  Upto(IF max = -1 \/ max > Len(s) - i + 1 THEN Len(s) - i + 1 ELSE max)

(* Whether r can begin at i, judged by the character there: FALSE only when
   every match of r must begin with a character other than s[i].  The matcher
   uses it to skip positions at which r fails anyway. *)
RECURSIVE CanStart(_, _, _, _)
RECURSIVE CanStartSeq(_, _, _, _, _)
CanStart(r, s, i, ci) ==
  CASE IsClass(r) -> i <= Len(s) /\ ClassHas(r, s[i], ci)
    [] r.k = "grp" -> CanStart(r.r, s, i, ci)
    [] r.k = "alt" -> \E j \in 1..Len(r.rs) : CanStart(r.rs[j], s, i, ci)
    [] r.k = "cat" -> CanStartSeq(r.rs, 1, s, i, ci)
    [] r.k = "rep" -> r.min = 0 \/ CanStart(r.r, s, i, ci)
    [] OTHER -> TRUE

CanStartSeq(rs, j, s, i, ci) ==
  IF j > Len(rs) THEN TRUE
  ELSE IF rs[j].k \in {"bol", "eol", "wb"} THEN CanStartSeq(rs, j + 1, s, i, ci)
  ELSE CanStart(rs[j], s, i, ci)

Feasible(k, s, i, ci) == Len(k) = 0 \/ CanStart(Head(k), s, i, ci)

(* The backtracking matcher.  k is what is left to match, first node first;
   the result is the first success in the order a backtracking engine tries
   them: an alternation tries its branches left to right, a repetition is
   greedy.  Two more nodes appear in k only: endgrp closes a capture group
   opened at `from`, repn is a repetition of which n rounds are done, the
   last one begun at `from`. *)
RECURSIVE M(_, _, _, _, _)
RECURSIVE MAlt(_, _, _, _, _, _, _)
RECURSIVE MRep(_, _, _, _, _, _, _)

\* the first attempt if it matched, the second otherwise
OrElse(first, second) == IF first.found THEN first ELSE second

MAlt(rs, j, rest, s, i, g, ci) ==
  IF j > Len(rs) THEN NoMatch
  ELSE OrElse(M(<<rs[j]>> \o rest, s, i, g, ci),
              MAlt(rs, j + 1, rest, s, i, g, ci))

MRep(r, n, rest, s, i, g, ci) ==
  OrElse(IF r.max = -1 \/ n < r.max
         THEN M(<<r.r, [k |-> "repn", r |-> r, n |-> n + 1, from |-> i]>> \o rest,
                s, i, g, ci)
         ELSE NoMatch,
         IF n >= r.min THEN M(rest, s, i, g, ci) ELSE NoMatch)

M(k, s, i, g, ci) ==
  IF Len(k) = 0 THEN [found |-> TRUE, s |-> 0, e |-> i, g |-> g]
  ELSE
    LET r == Head(k)
        rest == Tail(k)
    IN  CASE IsClass(r) ->
               IF i <= Len(s) /\ ClassHas(r, s[i], ci)
               THEN M(rest, s, i + 1, g, ci) ELSE NoMatch
          [] r.k = "cat" -> M(r.rs \o rest, s, i, g, ci)
          [] r.k = "alt" -> MAlt(r.rs, 1, rest, s, i, g, ci)
          [] r.k = "rep" ->
               IF IsClass(r.r)
               THEN \* the longest run first, then shorter ones
                    LET Longest(ends) ==
                          IF ends = {} THEN NoMatch
                          ELSE M(rest, s, Max(ends), g, ci)
                    IN  Longest({e \in (i + r.min)..(i + RunLength(r.r, s, i, ci, r.max)) :
                                   /\ Feasible(rest, s, e, ci)
                                   /\ M(rest, s, e, g, ci).found})
               ELSE MRep(r, 0, rest, s, i, g, ci)
          [] r.k = "lazy" ->
               \* the shortest run first, then longer ones
               LET Shortest(ends) ==
                     IF ends = {} THEN NoMatch
                     ELSE M(rest, s, Min(ends), g, ci)
               IN  Shortest({e \in (i + r.min)..(i + RunLength(r.r, s, i, ci, r.max)) :
                               /\ Feasible(rest, s, e, ci)
                               /\ M(rest, s, e, g, ci).found})
          [] r.k = "repn" ->
               \* a round that matched nothing is not repeated
               IF i = r.from THEN NoMatch
               ELSE MRep(r.r, r.n, rest, s, i, g, ci)
          [] r.k = "grp" ->
               M(<<r.r, [k |-> "endgrp", n |-> r.n, from |-> i]>> \o rest, s, i, g, ci)
          [] r.k = "endgrp" ->
               M(rest, s, i, [g EXCEPT ![r.n] = <<r.from, i>>], ci)
          [] r.k = "bol" -> IF i = 1 THEN M(rest, s, i, g, ci) ELSE NoMatch
          [] r.k = "eol" -> IF i = Len(s) + 1 THEN M(rest, s, i, g, ci) ELSE NoMatch
          [] r.k = "wb" ->
               IF IsWordAt(s, i - 1) # IsWordAt(s, i)
               THEN M(rest, s, i, g, ci) ELSE NoMatch

\* a regular expression literal: /r/ or /r/i
Re(r) == [r |-> r, ci |-> FALSE]
Rei(r) == [r |-> r, ci |-> TRUE]

\* the match of re on s that begins at position p, if there is one
MatchAt(re, s, p) ==
  LET At(x) == [x EXCEPT !.s = IF x.found THEN p ELSE 0]
  IN  IF Feasible(<<re.r>>, s, p, re.ci)
      THEN At(M(<<re.r>>, s, p, NoGroups, re.ci))
      ELSE NoMatch

(* RegExp.prototype.exec from position `from`: the leftmost match, and at
   that position the first one the engine finds.  s and e delimit match[0]. *)
ExecFrom(re, s, from) ==
  LET Leftmost(matches) ==
        IF matches = {} THEN NoMatch
        ELSE CHOOSE m \in matches : \A n \in matches : m.s <= n.s
  IN  Leftmost({m \in {MatchAt(re, s, p) : p \in from..(Len(s) + 1)} : m.found})

\* String.prototype.match without the g flag
Match(re, s) == ExecFrom(re, s, 1)

\* RegExp.prototype.test without the g flag
Test(re, s) == Match(re, s).found

\* match[0] and match[n]; a group that took no part is undefined (here <<>>)
Matched(s, m) == Slice(s, m.s, m.e)
Group(s, m, n) == Slice(s, m.g[n][1], m.g[n][2])
HasGroup(m, n) == m.g[n][1] # 0

\* s.replace(re, '') without the g flag: the first match is removed
ReplaceFirst(re, s) ==
  LET Without(m) ==
        IF m.found THEN Slice(s, 1, m.s) \o Slice(s, m.e, Len(s) + 1) ELSE s
  IN  Without(Match(re, s))

\* s.replace(re, '') with the g flag: every match is removed
RECURSIVE ReplaceAllFrom(_, _, _)
ReplaceAllFrom(re, s, from) ==
  LET Without(m) ==
        IF ~m.found THEN Slice(s, from, Len(s) + 1)
        ELSE IF m.e = m.s
             THEN IF m.s > Len(s) THEN <<>>
                  ELSE <<s[m.s]>> \o ReplaceAllFrom(re, s, m.s + 1)
             ELSE Slice(s, from, m.s) \o ReplaceAllFrom(re, s, m.e)
  IN  Without(ExecFrom(re, s, from))

\* when re is one character class, the characters outside it are kept
ReplaceAll(re, s) ==
  IF IsClass(re.r) THEN SelectSeq(s, LAMBDA c : ~ClassHas(re.r, c, re.ci))
  ELSE ReplaceAllFrom(re, s, 1)

(***************************************************************************)
(* JavaScript values.  A value is null, undefined, a string (s: its        *)
(* characters) or a number (n: the characters of its decimal form, as      *)
(* Number.prototype.toString writes it).                                   *)
(***************************************************************************)
Null == [t |-> "null"]
Undefined == [t |-> "undef"]
Str(s) == [t |-> "str", s |-> s]
Num(n) == [t |-> "num", n |-> n]

IsStr(v) == v.t = "str"

\* ToBoolean: null, undefined, "" and 0 are falsy
Truthy(v) ==
  CASE v.t = "null" -> FALSE
    [] v.t = "undef" -> FALSE
    [] v.t = "str" -> v.s # <<>>
    [] v.t = "num" -> v.n \notin {<<"0">>, <<"N", "a", "N">>}
    [] v.t = "bool" -> v.b
    [] v.t = "int" -> v.i # 0
    [] OTHER -> TRUE

\* a || b
Or(a, b) == IF Truthy(a) THEN a ELSE b

\* String(value); an array writes its elements joined by commas
RECURSIVE ToStr(_)
RECURSIVE JoinFrom(_, _)
JoinFrom(a, i) ==
  IF i > Len(a) THEN <<>>
  ELSE (IF i > 1 THEN <<",">> ELSE <<>>)
         \o (IF a[i].t \in {"null", "undef"} THEN <<>> ELSE ToStr(a[i]))
         \o JoinFrom(a, i + 1)

ToStr(v) ==
  CASE v.t = "str" -> v.s
    [] v.t = "num" -> v.n
    [] v.t = "null" -> <<"n", "u", "l", "l">>
    [] v.t = "undef" -> <<"u", "n", "d", "e", "f", "i", "n", "e", "d">>
    [] v.t = "bool" -> IF v.b THEN <<"t", "r", "u", "e">>
                       ELSE <<"f", "a", "l", "s", "e">>
    [] v.t = "arr" -> JoinFrom(v.a, 1)
    [] v.t = "obj" -> <<"[", "o", "b", "j", "e", "c", "t", " ",
                        "O", "b", "j", "e", "c", "t", "]">>

\* null.toString() and undefined.toString() throw a TypeError
HasToString(v) == v.t \notin {"null", "undef"}

\* the outcome of a function that threw instead of returning
TypeError == <<"TypeError">>

(***************************************************************************)
(* Numbers.  A parsed number is exact: a sign, the digits of its integer   *)
(* part without leading zeros, and its fractional digits.  This is the     *)
(* double the engine computes as long as the integer part has at most 15   *)
(* digits, or is a power of ten; the inputs of the model keep to that.     *)
(***************************************************************************)
NaN == [nan |-> TRUE, neg |-> FALSE, ip |-> <<"0">>, fp |-> <<>>]

RECURSIVE StripZeros(_)
StripZeros(ds) ==
  IF Len(ds) > 1 /\ Head(ds) = "0" THEN StripZeros(Tail(ds)) ELSE ds

\* the longest run of digits of s from position i
RECURSIVE DigitRun(_, _)
DigitRun(s, i) ==
  IF i <= Len(s) /\ s[i] \in Digits THEN <<s[i]>> \o DigitRun(s, i + 1) ELSE <<>>

AllZero(ds) == \A i \in 1..Len(ds) : ds[i] = "0"

\* the text begins with a sign; with a minus sign
Signed(s) == s # <<>> /\ Head(s) \in {"+", "-"}

Negative(s) == s # <<>> /\ Head(s) = "-"

(* parseFloat: leading blanks, a sign, then the longest prefix that is a
   decimal literal (digits, a point, digits; at least one digit).  The
   inputs of the model hold no exponent and no "Infinity". *)
ParseFloat(s0) ==
  LET Number(neg, ip, fp) ==
        IF ip = <<>> /\ fp = <<>> THEN NaN
        ELSE [nan |-> FALSE, neg |-> neg,
              ip |-> StripZeros(IF ip = <<>> THEN <<"0">> ELSE ip), fp |-> fp]
      Fraction(s, dot) ==
        IF dot <= Len(s) /\ s[dot] = "." THEN DigitRun(s, dot + 1) ELSE <<>>
      Literal(s, b) ==
        Number(Negative(s), DigitRun(s, b), Fraction(s, b + Len(DigitRun(s, b))))
  IN  Literal(TrimLeft(s0), IF Signed(TrimLeft(s0)) THEN 2 ELSE 1)

\* the number is > 0
Positive(n) == ~n.nan /\ ~n.neg /\ ~(AllZero(n.ip) /\ AllZero(n.fp))

NumNaN == [t |-> "num", n |-> <<"N", "a", "N">>]

(* parseInt(value): the value as a string, leading blanks, a sign, then the
   longest run of digits; NaN when there is none. *)
ParseInt(v) ==
  LET Number(neg, ds) ==
        IF ds = <<>> THEN NumNaN
        ELSE [t |-> "num",
              n |-> (IF neg /\ ~AllZero(ds) THEN <<"-">> ELSE <<>>) \o StripZeros(ds)]
      Literal(s) == Number(Negative(s), DigitRun(s, IF Signed(s) THEN 2 ELSE 1))
  IN  Literal(TrimLeft(ToStr(v)))

\* the digits of a natural number plus one
RECURSIVE IncDigits(_)
IncDigits(ds) ==
  IF ds = <<>> THEN <<"1">>
  ELSE LET last == ds[Len(ds)]
           init == Slice(ds, 1, Len(ds))
       IN  IF last = "9" THEN IncDigits(init) \o <<"0">>
           ELSE init \o <<DigitSeq[DigitVal(last) + 2]>>

RECURSIVE NatToStr(_)
NatToStr(n) ==
  IF n < 10 THEN <<DigitSeq[n + 1]>>
  ELSE NatToStr(n \div 10) \o <<DigitSeq[(n % 10) + 1]>>

\* the natural number a run of digits writes
RECURSIVE DigitsToNat(_)
DigitsToNat(ds) ==
  IF ds = <<>> THEN 0
  ELSE DigitsToNat(Slice(ds, 1, Len(ds))) * 10 + DigitVal(ds[Len(ds)])

RECURSIVE StripTrailingZeros(_)
StripTrailingZeros(ds) ==
  IF Len(ds) > 1 /\ ds[Len(ds)] = "0"
  THEN StripTrailingZeros(Slice(ds, 1, Len(ds))) ELSE ds

\* Number.prototype.toString of a number >= 10^21 (its fraction is below the
\* double's precision)
ExponentForm(n) ==
  LET m == StripTrailingZeros(n.ip)
  IN  (IF n.neg THEN <<"-">> ELSE <<>>)
        \o <<m[1]>> \o (IF Len(m) > 1 THEN <<".">> \o Tail(m) ELSE <<>>)
        \o <<"e", "+">> \o NatToStr(Len(n.ip) - 1)

(* Number.prototype.toFixed(2).  A number below 10^21 is rounded to the
   nearest multiple of 0.01.  When the decimal literal lies exactly half way
   the double nearest to it decides, above or below: tieUp is that outcome. *)
ToFixed2(n, tieUp) ==
  LET \* the digits after the second decimal round the hundredths up
      RoundsUp(rest) ==
        \/ DigitVal(rest[1]) > 5
        \/ DigitVal(rest[1]) = 5 /\ ~AllZero(Tail(rest))
        \/ DigitVal(rest[1]) = 5 /\ AllZero(Tail(rest)) /\ tieUp
      Rounded(ds0, up) == StripZeros(IF up THEN IncDigits(ds0) ELSE ds0)
      Padded(ds) ==
        IF Len(ds) < 3 THEN [i \in 1..(3 - Len(ds)) |-> "0"] \o ds ELSE ds
      Pointed(ds) ==
        Slice(ds, 1, Len(ds) - 1) \o <<".">> \o Slice(ds, Len(ds) - 1, Len(ds) + 1)
      Hundredths(f) ==
        Pointed(Padded(Rounded(n.ip \o Slice(f, 1, 3),
                               RoundsUp(Slice(f, 3, Len(f) + 1)))))
  IN  IF n.nan THEN <<"N", "a", "N">>
      ELSE IF Len(n.ip) >= 22 THEN ExponentForm(n)    \* n >= 10^21
      ELSE (IF n.neg /\ ~(AllZero(n.ip) /\ AllZero(n.fp)) THEN <<"-">> ELSE <<>>)
             \o Hundredths(n.fp \o <<"0", "0", "0">>)

(***************************************************************************)
(* The price normaliser                                                    *)
(***************************************************************************)
ZeroPrice == <<"0", ".", "0", "0">>

\* the characters standing for the pound, euro and yen signs
CurrencySigns == {"$", "pound", "euro", "yen"}

\* /\d+\.?\d*/
NumberToken == Re(Cat(<<Plus(D), Opt(Ch(".")), Star(D)>>))

\* cleanPrice of the Nova Lite stage: the first numeric token of the text
\* without its currency signs, commas and blanks
CleanPriceNova(price, tieUp) ==
  LET Token(cleaned, match) ==
        IF match.found
        THEN ToFixed2(ParseFloat(Matched(cleaned, match)), tieUp)
        ELSE ZeroPrice
      First(cleaned) == Token(cleaned, Match(NumberToken, cleaned))
  IN  IF ~Truthy(price) THEN ZeroPrice
      ELSE IF ~HasToString(price) THEN TypeError
      ELSE First(ReplaceAll(Re(Cs(CurrencySigns \cup {","} \cup Spaces)),
                            ToStr(price)))

\* cleanPrice of the Claude stage without its isNaN test
CleanPriceClaudeNoNaNTest(price, tieUp) ==
  IF ~Truthy(price) THEN ZeroPrice
  ELSE IF ~HasToString(price) THEN TypeError
  ELSE ToFixed2(ParseFloat(ReplaceAll(Re(NCs(Digits \cup {"."})), ToStr(price))),
                tieUp)

\* cleanPrice of the Claude stage: every character but digits and points is
\* removed, and what is left is parsed as one number
CleanPriceClaude(price, tieUp) ==
  LET Fixed(number) == IF number.nan THEN ZeroPrice ELSE ToFixed2(number, tieUp)
  IN  IF ~Truthy(price) THEN ZeroPrice
      ELSE IF ~HasToString(price) THEN TypeError
      ELSE Fixed(ParseFloat(ReplaceAll(Re(NCs(Digits \cup {"."})), ToStr(price))))

cleanPrice(variant, price, tieUp) ==
  IF variant = "nova" THEN CleanPriceNova(price, tieUp)
  ELSE CleanPriceClaude(price, tieUp)

(***************************************************************************)
(* JSON.parse.  An object is a function from its keys to values, an array  *)
(* a sequence.  The texts of the model hold no escape and no exponent.     *)
(***************************************************************************)
Obj(o) == [t |-> "obj", o |-> o]
Arr(a) == [t |-> "arr", a |-> a]
Bool(b) == [t |-> "bool", b |-> b]

IsObj(v) == v.t = "obj"
\* Array.isArray
IsArray(v) == v.t = "arr"

\* obj.key and obj?.key of a value: undefined when the key is missing; of a
\* string or a number every property the model reads is undefined
Get(v, key) ==
  IF v.t = "obj" /\ key \in DOMAIN v.o THEN v.o[key] ELSE Undefined

\* obj.key throws on null and undefined
CanRead(v) == v.t \notin {"null", "undef"}

\* {...obj, key: value}
Put(v, key, value) == Obj((key :> value) @@ v.o)

\* the decimal form Number.prototype.toString gives a parsed literal
NumberToString(n) ==
  LET Decimal(fp) ==
        (IF n.neg /\ ~(AllZero(n.ip) /\ fp = <<>>) THEN <<"-">> ELSE <<>>)
          \o n.ip \o (IF fp = <<>> THEN <<>> ELSE <<".">> \o fp)
  IN  Decimal(IF AllZero(n.fp) THEN <<>> ELSE StripTrailingZeros(n.fp))

JsonFail == [ok |-> FALSE, v |-> Null, i |-> 0]

RECURSIVE SkipWs(_, _)
SkipWs(s, i) ==
  IF i <= Len(s) /\ s[i] \in Spaces \cup {"\n"} THEN SkipWs(s, i + 1) ELSE i

\* the position of the next double quote from i, or 0
RECURSIVE NextQuote(_, _)
NextQuote(s, i) ==
  IF i > Len(s) \/ s[i] \in {"\\", "\n"} THEN 0
  ELSE IF s[i] = "\"" THEN i ELSE NextQuote(s, i + 1)

\* a string literal whose opening quote is at i
JsonString(s, i) ==
  LET Closed(j) ==
        IF j = 0 THEN JsonFail
        ELSE [ok |-> TRUE, v |-> Str(Slice(s, i + 1, j)), i |-> j + 1]
  IN  Closed(NextQuote(s, i + 1))

\* -?(0|[1-9]\d*)(\.\d+)?
JsonNumberToken ==
  Cat(<<Opt(Ch("-")),
        Alt(<<Ch("0"), Cat(<<Cs(Digits \ {"0"}), Star(D)>>)>>),
        Opt(Cat(<<Ch("."), Plus(D)>>))>>)

JsonNumber(s, i) ==
  LET Token(m) ==
        IF ~m.found THEN JsonFail
        ELSE [ok |-> TRUE,
              v |-> Num(NumberToString(ParseFloat(Slice(s, i, m.e)))),
              i |-> m.e]
  IN  Token(MatchAt(Re(JsonNumberToken), s, i))

StartsWith(s, i, w) ==
  i + Len(w) - 1 <= Len(s) /\ \A j \in 1..Len(w) : s[i + j - 1] = w[j]

JsonLiteral(s, i) ==
  IF StartsWith(s, i, <<"n", "u", "l", "l">>)
  THEN [ok |-> TRUE, v |-> Null, i |-> i + 4]
  ELSE IF StartsWith(s, i, <<"t", "r", "u", "e">>)
  THEN [ok |-> TRUE, v |-> Bool(TRUE), i |-> i + 4]
  ELSE IF StartsWith(s, i, <<"f", "a", "l", "s", "e">>)
  THEN [ok |-> TRUE, v |-> Bool(FALSE), i |-> i + 5]
  ELSE JsonFail

RECURSIVE JsonValue(_, _)
RECURSIVE JsonMembers(_, _, _)
RECURSIVE JsonElements(_, _, _)

\* the members of an object from i, a member being due; acc: those read so far
JsonMembers(s, i, acc) ==
  LET Key(i1) ==
        IF i1 <= Len(s) /\ s[i1] = "\"" THEN JsonString(s, i1) ELSE JsonFail
      Value(key, i2) ==
        IF key.ok /\ i2 <= Len(s) /\ s[i2] = ":"
        THEN JsonValue(s, i2 + 1) ELSE JsonFail
      Next(obj, ok, i3) ==
        IF ~ok \/ i3 > Len(s) THEN JsonFail
        ELSE IF s[i3] = "," THEN JsonMembers(s, i3 + 1, obj)
        ELSE IF s[i3] = "}" THEN [ok |-> TRUE, v |-> Obj(obj), i |-> i3 + 1]
        ELSE JsonFail
      Member(key, val) ==
        Next((key.v.s :> val.v) @@ acc, val.ok, SkipWs(s, val.i))
      Keyed(key) == Member(key, Value(key, SkipWs(s, key.i)))
  IN  Keyed(Key(SkipWs(s, i)))

\* the elements of an array from i, an element being due
JsonElements(s, i, acc) ==
  LET Next(val, i3) ==
        IF ~val.ok \/ i3 > Len(s) THEN JsonFail
        ELSE IF s[i3] = "," THEN JsonElements(s, i3 + 1, Append(acc, val.v))
        ELSE IF s[i3] = "]"
        THEN [ok |-> TRUE, v |-> Arr(Append(acc, val.v)), i |-> i3 + 1]
        ELSE JsonFail
      Element(val) == Next(val, SkipWs(s, val.i))
  IN  Element(JsonValue(s, i))

JsonValue(s, i0) ==
  LET Closes(j, c) == j <= Len(s) /\ s[j] = c
      At(i) ==
        IF i > Len(s) THEN JsonFail
        ELSE IF s[i] = "{"
             THEN IF Closes(SkipWs(s, i + 1), "}")
                  THEN [ok |-> TRUE, v |-> Obj(<<>>), i |-> SkipWs(s, i + 1) + 1]
                  ELSE JsonMembers(s, i + 1, <<>>)
        ELSE IF s[i] = "["
             THEN IF Closes(SkipWs(s, i + 1), "]")
                  THEN [ok |-> TRUE, v |-> Arr(<<>>), i |-> SkipWs(s, i + 1) + 1]
                  ELSE JsonElements(s, i + 1, <<>>)
        ELSE IF s[i] = "\"" THEN JsonString(s, i)
        ELSE IF s[i] \in Digits \cup {"-"} THEN JsonNumber(s, i)
        ELSE JsonLiteral(s, i)
  IN  At(SkipWs(s, i0))

\* JSON.parse: ok is false where it throws a SyntaxError
JsonParse(s) ==
  LET Whole(r) ==
        IF r.ok /\ SkipWs(s, r.i) = Len(s) + 1 THEN [ok |-> TRUE, v |-> r.v]
        ELSE [ok |-> FALSE, v |-> Null]
  IN  Whole(JsonValue(s, 1))

\* /\{[^}]*\}/, which ends at the first closing brace
BraceToFirstClose == Re(Cat(<<Ch("{"), Star(NCs({"}"})), Ch("}")>>))

\* /\{[\s\S]*\}/: from the first opening brace to the last closing brace
BraceDelimited == Re(Cat(<<Ch("{"), Star(NCs({})), Ch("}")>>))

(***************************************************************************)
(* Property names and literals of the Bedrock stage                        *)
(***************************************************************************)
kMerchant == <<"m", "e", "r", "c", "h", "a", "n", "t">>
kVendor == <<"v", "e", "n", "d", "o", "r">>
kDate == <<"d", "a", "t", "e">>
kTotal == <<"t", "o", "t", "a", "l">>
kSubtotal == <<"s", "u", "b", "t", "o", "t", "a", "l">>
kTax == <<"t", "a", "x">>
kItems == <<"i", "t", "e", "m", "s">>
kName == <<"n", "a", "m", "e">>
kPrice == <<"p", "r", "i", "c", "e">>
kQuantity == <<"q", "u", "a", "n", "t", "i", "t", "y">>
kLineTotal == <<"l", "i", "n", "e", "T", "o", "t", "a", "l">>
kMetadata == <<"m", "e", "t", "a", "d", "a", "t", "a">>
kConfidence == <<"c", "o", "n", "f", "i", "d", "e", "n", "c", "e">>
kItem == <<"i", "t", "e", "m">>
kDescription == <<"d", "e", "s", "c", "r", "i", "p", "t", "i", "o", "n">>
kAmount == <<"a", "m", "o", "u", "n", "t">>
kValue == <<"v", "a", "l", "u", "e">>
kOverall == <<"o", "v", "e", "r", "a", "l", "l">>
kSummaryFields == <<"s", "u", "m", "m", "a", "r", "y", "F", "i", "e", "l",
    "d", "s">>
kLineItems == <<"l", "i", "n", "e", "I", "t", "e", "m", "s">>
kRawText == <<"r", "a", "w", "T", "e", "x", "t">>
kFieldsFound == <<"t", "e", "x", "t", "r", "a", "c", "t", "F", "i", "e",
    "l", "d", "s", "F", "o", "u", "n", "d">>
kItemsFound == <<"t", "e", "x", "t", "r", "a", "c", "t", "I", "t", "e",
    "m", "s", "F", "o", "u", "n", "d">>
kFieldsUsed == <<"t", "e", "x", "t", "r", "a", "c", "t", "F", "i", "e",
    "l", "d", "s", "U", "s", "e", "d">>
kLineItemsFound == <<"l", "i", "n", "e", "I", "t", "e", "m", "s", "F", "o",
    "u", "n", "d">>
VENDOR_NAME == <<"V", "E", "N", "D", "O", "R", "_", "N", "A", "M", "E">>
INVOICE_RECEIPT_DATE == <<"I", "N", "V", "O", "I", "C", "E", "_", "R", "E",
    "C", "E", "I", "P", "T", "_", "D", "A", "T", "E">>
TOTAL == <<"T", "O", "T", "A", "L">>
SUBTOTAL == <<"S", "U", "B", "T", "O", "T", "A", "L">>
TAX == <<"T", "A", "X">>
ITEM == <<"I", "T", "E", "M">>
PRICE == <<"P", "R", "I", "C", "E">>
QUANTITY == <<"Q", "U", "A", "N", "T", "I", "T", "Y">>
UnknownVendor == <<"U", "n", "k", "n", "o", "w", "n", " ", "V", "e", "n",
    "d", "o", "r">>
UnknownStore == <<"U", "n", "k", "n", "o", "w", "n", " ", "S", "t", "o",
    "r", "e">>
UnknownItem == <<"U", "n", "k", "n", "o", "w", "n", " ", "I", "t", "e", "m">>
Unknown == <<"U", "n", "k", "n", "o", "w", "n">>
ItemPrefix == <<"I", "t", "e", "m", " ">>
One == <<"1">>

(***************************************************************************)
(* More of JavaScript's values                                             *)
(***************************************************************************)
\* an integer the code counts or scores with
IntV(i) == [t |-> "int", i |-> i]

\* a thrown error, in the place of the value a function would have returned
Thrown == [t |-> "throw"]
IsThrown(v) == v.t = "throw"

EmptyObject == Obj(<<>>)

\* { ...value }: the properties of an object, the indexed characters of a
\* string, nothing of any other value
Spread(v) ==
  CASE v.t = "obj" -> v
    [] v.t = "str" -> Obj([k \in {NatToStr(i - 1) : i \in 1..Len(v.s)} |->
                             Str(<<v.s[CHOOSE i \in 1..Len(v.s) : NatToStr(i - 1) = k]>>)])
    [] v.t = "arr" -> Obj([k \in {NatToStr(i - 1) : i \in 1..Len(v.a)} |->
                             v.a[CHOOSE i \in 1..Len(v.a) : NatToStr(i - 1) = k]])
    [] OTHER -> EmptyObject

\* value.length > 0 of an array or a string; undefined > 0 is false
HasLength(v) ==
  CASE v.t = "arr" -> Len(v.a) > 0
    [] v.t = "str" -> Len(v.s) > 0
    [] OTHER -> FALSE

\* Object.keys(value || {}).length
CountKeys(v) ==
  IF ~Truthy(v) THEN 0
  ELSE CASE v.t = "obj" -> Cardinality(DOMAIN v.o)
         [] v.t = "arr" -> Len(v.a)
         [] v.t = "str" -> Len(v.s)
         [] OTHER -> 0

\* (value || []).length
CountItems(v) ==
  IF ~Truthy(v) THEN IntV(0)
  ELSE CASE v.t = "arr" -> IntV(Len(v.a))
         [] v.t = "str" -> IntV(Len(v.s))
         [] OTHER -> Undefined

(***************************************************************************)
(* The OCR stage: what the Textract handlers hand to the Bedrock stage.    *)
(* An expense document is [fields, items, lines]: fields and each item are *)
(* sequences of [type, text, conf], lines the LINE blocks of the text.     *)
(***************************************************************************)
\* the handler of the Nova pipeline lower-cases the field type and keeps the
\* bare text; the other handler keeps the type and stores {value, confidence}
FieldKey(variant, f) == IF variant = "nova" THEN ToLowerCase(f.type) ELSE f.type

FieldEntry(variant, f) ==
  IF variant = "nova" THEN Str(f.text)
  ELSE Put(Put(EmptyObject, kValue, Str(f.text)), kConfidence, IntV(f.conf))

\* the object built by the loop over the first i fields
RECURSIVE FieldsObject(_, _, _)
FieldsObject(variant, fields, i) ==
  IF i = 0 THEN EmptyObject
  ELSE LET f == fields[i]
           sofar == FieldsObject(variant, fields, i - 1)
       IN  IF f.type # <<>> /\ f.text # <<>>
           THEN Put(sofar, FieldKey(variant, f), FieldEntry(variant, f))
           ELSE sofar

\* the line items whose object has at least one key
RECURSIVE LineItemsOf(_, _, _)
LineItemsOf(variant, items, i) ==
  IF i = 0 THEN <<>>
  ELSE LET lineItem == FieldsObject(variant, items[i], Len(items[i]))
           sofar == LineItemsOf(variant, items, i - 1)
       IN  IF lineItem # EmptyObject THEN Append(sofar, lineItem) ELSE sofar

\* blocks.map(block => block.Text).join('\n')
RECURSIVE JoinLines(_, _)
JoinLines(lines, i) ==
  IF i > Len(lines) THEN <<>>
  ELSE (IF i > 1 THEN <<"\n">> ELSE <<>>) \o lines[i] \o JoinLines(lines, i + 1)

\* the confidences the Nova pipeline's handler keeps, one per field key
RECURSIVE ConfidenceObject(_, _)
ConfidenceObject(fields, i) ==
  IF i = 0 THEN <<>>
  ELSE LET f == fields[i]
           sofar == ConfidenceObject(fields, i - 1)
       IN  IF f.type # <<>> /\ f.text # <<>>
           THEN (ToLowerCase(f.type) :> f.conf) @@ sofar
           ELSE sofar

RECURSIVE SumOver(_, _)
SumOver(f, S) ==
  IF S = {} THEN 0
  ELSE LET k == CHOOSE k \in S : TRUE IN f[k] + SumOver(f, S \ {k})

\* sum / count || 0: the mean of the kept confidences, 0 when there is none
OverallConfidence(fields) ==
  LET c == ConfidenceObject(fields, Len(fields))
  IN  IF DOMAIN c = {} THEN 0 ELSE SumOver(c, DOMAIN c) \div Cardinality(DOMAIN c)

TextractResult(variant, doc) ==
  LET summaryFields == FieldsObject(variant, doc.fields, Len(doc.fields))
      lineItems == LineItemsOf(variant, doc.items, Len(doc.items))
      rawText == JoinLines(doc.lines, 1)
      confidence ==
        IF variant = "nova"
        THEN Put(EmptyObject, kOverall, IntV(OverallConfidence(doc.fields)))
        ELSE Put(Put(EmptyObject, kSummaryFields, IntV(CountKeys(summaryFields))),
                 kLineItems, IntV(Len(lineItems)))
  IN  Put(Put(Put(Put(EmptyObject, kSummaryFields, summaryFields),
                  kLineItems, Arr(lineItems)),
              kRawText, Str(rawText)),
          kConfidence, confidence)

\* formatTodayDate() on the day of the run, as each handler writes it
TodayIso == <<"2", "0", "2", "4", "-", "0", "2", "-", "0", "1">>
TodayUs == <<"0", "2", "/", "0", "1", "/", "2", "0", "2", "4">>

(***************************************************************************)
(* The patterns and word lists of the heuristic parsers                    *)
(***************************************************************************)
datePatterns ==
  <<
    \* /\b(\d{1,2})[\/\-\.](\d{1,2})[\/\-\.](\d{4})\b/
    Re(Cat(<<Wb, Grp(1, Rep(D, 1, 2)), Cs({"/", "-", "."}), Grp(2, Rep(D, 1,
      2)), Cs({"/", "-", "."}), Grp(3, Rep(D, 4, 4)), Wb>>)),
    \* /\b(\d{1,2})[\/\-\.](\d{1,2})[\/\-\.](\d{2})\b/
    Re(Cat(<<Wb, Grp(1, Rep(D, 1, 2)), Cs({"/", "-", "."}), Grp(2, Rep(D, 1,
      2)), Cs({"/", "-", "."}), Grp(3, Rep(D, 2, 2)), Wb>>)),
    \* /\b(\d{1,2})[\/\-\.](\d{1,2})[\/\-\.](\d{4})\b/
    Re(Cat(<<Wb, Grp(1, Rep(D, 1, 2)), Cs({"/", "-", "."}), Grp(2, Rep(D, 1,
      2)), Cs({"/", "-", "."}), Grp(3, Rep(D, 4, 4)), Wb>>)),
    \* /\b(\d{4})[\/\-\.](\d{1,2})[\/\-\.](\d{1,2})\b/
    Re(Cat(<<Wb, Grp(1, Rep(D, 4, 4)), Cs({"/", "-", "."}), Grp(2, Rep(D, 1,
      2)), Cs({"/", "-", "."}), Grp(3, Rep(D, 1, 2)), Wb>>)),
    \* /\b(Jan|Feb|Mar|Apr|May|Jun|Jul|Aug|Sep|Oct|Nov|Dec)[a-z]*\s+(\d{1,2}),?\s+(\d{4})\b/i
    Rei(Cat(<<Wb, Grp(1, Alt(<<Lit(<<"J", "a", "n">>), Lit(<<"F", "e",
      "b">>), Lit(<<"M", "a", "r">>), Lit(<<"A", "p", "r">>), Lit(<<"M",
      "a", "y">>), Lit(<<"J", "u", "n">>), Lit(<<"J", "u", "l">>),
      Lit(<<"A", "u", "g">>), Lit(<<"S", "e", "p">>), Lit(<<"O", "c",
      "t">>), Lit(<<"N", "o", "v">>), Lit(<<"D", "e", "c">>)>>)),
      Star(Cs(Lowers)), Plus(Ws), Grp(2, Rep(D, 1, 2)), Opt(Ch(",")),
      Plus(Ws), Grp(3, Rep(D, 4, 4)), Wb>>)),
    \* /\b(\d{1,2})\s+(Jan|Feb|Mar|Apr|May|Jun|Jul|Aug|Sep|Oct|Nov|Dec)[a-z]*\s+(\d{4})\b/i
    Rei(Cat(<<Wb, Grp(1, Rep(D, 1, 2)), Plus(Ws), Grp(2, Alt(<<Lit(<<"J",
      "a", "n">>), Lit(<<"F", "e", "b">>), Lit(<<"M", "a", "r">>),
      Lit(<<"A", "p", "r">>), Lit(<<"M", "a", "y">>), Lit(<<"J", "u",
      "n">>), Lit(<<"J", "u", "l">>), Lit(<<"A", "u", "g">>), Lit(<<"S",
      "e", "p">>), Lit(<<"O", "c", "t">>), Lit(<<"N", "o", "v">>),
      Lit(<<"D", "e", "c">>)>>)), Star(Cs(Lowers)), Plus(Ws), Grp(3,
      Rep(D, 4, 4)), Wb>>))
  >>

\* /\b\d{1,2}:\d{2}(:\d{2})?\s*(AM|PM)?\b/i
timePattern ==
  Rei(Cat(<<Wb, Rep(D, 1, 2), Ch(":"), Rep(D, 2, 2), Opt(Grp(1,
    Cat(<<Ch(":"), Rep(D, 2, 2)>>))), Star(Ws), Opt(Grp(2, Alt(<<Lit(<<"A",
    "M">>), Lit(<<"P", "M">>)>>))), Wb>>))

pricePatterns ==
  <<
    \* /\$\s*(\d+\.\d{2})/
    Re(Cat(<<Ch("$"), Star(Ws), Grp(1, Cat(<<Plus(D), Ch("."), Rep(D, 2,
      2)>>))>>)),
    \* /(\d+\.\d{2})\s*\$/
    Re(Cat(<<Grp(1, Cat(<<Plus(D), Ch("."), Rep(D, 2, 2)>>)), Star(Ws),
      Ch("$")>>)),
    \* /(\d+\.\d{2})/
    Re(Grp(1, Cat(<<Plus(D), Ch("."), Rep(D, 2, 2)>>))),
    \* /(\d+),(\d{2})/
    Re(Cat(<<Grp(1, Plus(D)), Ch(","), Grp(2, Rep(D, 2, 2))>>))
  >>

totalPatterns ==
  <<
    \* /(total|grand\s*total|amount\s*due|balance\s*due|final\s*total)\s*:?\s*\$?\s*(\d+[,.]?\d{2})/i
    Rei(Cat(<<Grp(1, Alt(<<Lit(<<"t", "o", "t", "a", "l">>), Cat(<<Lit(<<"g",
      "r", "a", "n", "d">>), Star(Ws), Lit(<<"t", "o", "t", "a",
      "l">>)>>), Cat(<<Lit(<<"a", "m", "o", "u", "n", "t">>), Star(Ws),
      Lit(<<"d", "u", "e">>)>>), Cat(<<Lit(<<"b", "a", "l", "a", "n",
      "c", "e">>), Star(Ws), Lit(<<"d", "u", "e">>)>>), Cat(<<Lit(<<"f",
      "i", "n", "a", "l">>), Star(Ws), Lit(<<"t", "o", "t", "a",
      "l">>)>>)>>)), Star(Ws), Opt(Ch(":")), Star(Ws), Opt(Ch("$")),
      Star(Ws), Grp(2, Cat(<<Plus(D), Opt(Cs({",", "."})), Rep(D, 2,
      2)>>))>>)),
    \* /(total)\s+(\d+\.\d{2})/i
    Rei(Cat(<<Grp(1, Lit(<<"t", "o", "t", "a", "l">>)), Plus(Ws), Grp(2,
      Cat(<<Plus(D), Ch("."), Rep(D, 2, 2)>>))>>)),
    \* /^(total)\s*(\d+\.\d{2})$/i
    Rei(Cat(<<Bol, Grp(1, Lit(<<"t", "o", "t", "a", "l">>)), Star(Ws), Grp(2,
      Cat(<<Plus(D), Ch("."), Rep(D, 2, 2)>>)), Eol>>)),
    \* /(amt\s*due|amount)\s*:?\s*\$?\s*(\d+\.\d{2})/i
    Rei(Cat(<<Grp(1, Alt(<<Cat(<<Lit(<<"a", "m", "t">>), Star(Ws), Lit(<<"d",
      "u", "e">>)>>), Lit(<<"a", "m", "o", "u", "n", "t">>)>>)),
      Star(Ws), Opt(Ch(":")), Star(Ws), Opt(Ch("$")), Star(Ws), Grp(2,
      Cat(<<Plus(D), Ch("."), Rep(D, 2, 2)>>))>>))
  >>

subtotalPatterns ==
  <<
    \* /(subtotal|sub\s*total|sub-total)\s*:?\s*\$?\s*(\d+\.\d{2})/i
    Rei(Cat(<<Grp(1, Alt(<<Lit(<<"s", "u", "b", "t", "o", "t", "a", "l">>),
      Cat(<<Lit(<<"s", "u", "b">>), Star(Ws), Lit(<<"t", "o", "t", "a",
      "l">>)>>), Lit(<<"s", "u", "b", "-", "t", "o", "t", "a",
      "l">>)>>)), Star(Ws), Opt(Ch(":")), Star(Ws), Opt(Ch("$")),
      Star(Ws), Grp(2, Cat(<<Plus(D), Ch("."), Rep(D, 2, 2)>>))>>)),
    \* /(merchandise|merch)\s*:?\s*\$?\s*(\d+\.\d{2})/i
    Rei(Cat(<<Grp(1, Alt(<<Lit(<<"m", "e", "r", "c", "h", "a", "n", "d", "i",
      "s", "e">>), Lit(<<"m", "e", "r", "c", "h">>)>>)), Star(Ws),
      Opt(Ch(":")), Star(Ws), Opt(Ch("$")), Star(Ws), Grp(2,
      Cat(<<Plus(D), Ch("."), Rep(D, 2, 2)>>))>>))
  >>

taxPatterns ==
  <<
    \* /(tax|hst|gst|pst|sales\s*tax|vat)\s*:?\s*\$?\s*(\d+\.\d{2})/i
    Rei(Cat(<<Grp(1, Alt(<<Lit(<<"t", "a", "x">>), Lit(<<"h", "s", "t">>),
      Lit(<<"g", "s", "t">>), Lit(<<"p", "s", "t">>), Cat(<<Lit(<<"s",
      "a", "l", "e", "s">>), Star(Ws), Lit(<<"t", "a", "x">>)>>),
      Lit(<<"v", "a", "t">>)>>)), Star(Ws), Opt(Ch(":")), Star(Ws),
      Opt(Ch("$")), Star(Ws), Grp(2, Cat(<<Plus(D), Ch("."), Rep(D, 2,
      2)>>))>>)),
    \* /(tax\s*total)\s*:?\s*\$?\s*(\d+\.\d{2})/i
    Rei(Cat(<<Grp(1, Cat(<<Lit(<<"t", "a", "x">>), Star(Ws), Lit(<<"t", "o",
      "t", "a", "l">>)>>)), Star(Ws), Opt(Ch(":")), Star(Ws),
      Opt(Ch("$")), Star(Ws), Grp(2, Cat(<<Plus(D), Ch("."), Rep(D, 2,
      2)>>))>>)),
    \* /(\d+\.?\d*%\s*tax)\s*:?\s*\$?\s*(\d+\.\d{2})/i
    Rei(Cat(<<Grp(1, Cat(<<Plus(D), Opt(Ch(".")), Star(D), Ch("%"), Star(Ws),
      Lit(<<"t", "a", "x">>)>>)), Star(Ws), Opt(Ch(":")), Star(Ws),
      Opt(Ch("$")), Star(Ws), Grp(2, Cat(<<Plus(D), Ch("."), Rep(D, 2,
      2)>>))>>))
  >>

\* the nonItemKeywords of parseReceiptText
simpleNonItemKeywords ==
  <<
    <<"t", "o", "t", "a", "l">>,
    <<"s", "u", "b", "t", "o", "t", "a", "l">>,
    <<"t", "a", "x">>,
    <<"c", "a", "s", "h">>,
    <<"c", "h", "a", "n", "g", "e">>,
    <<"c", "r", "e", "d", "i", "t">>,
    <<"d", "e", "b", "i", "t">>,
    <<"v", "i", "s", "a">>,
    <<"m", "a", "s", "t", "e", "r", "c", "a", "r", "d">>,
    <<"t", "h", "a", "n", "k">>,
    <<"y", "o", "u">>,
    <<"w", "e", "l", "c", "o", "m", "e">>,
    <<"s", "t", "o", "r", "e">>,
    <<"r", "e", "c", "e", "i", "p", "t">>,
    <<"t", "r", "a", "n", "s", "a", "c", "t", "i", "o", "n">>,
    <<"d", "a", "t", "e">>,
    <<"t", "i", "m", "e">>,
    <<"c", "a", "s", "h", "i", "e", "r">>,
    <<"r", "e", "g", "i", "s", "t", "e", "r">>,
    <<"c", "a", "r", "d">>,
    <<"a", "p", "p", "r", "o", "v", "a", "l">>,
    <<"r", "e", "f", "e", "r", "e", "n", "c", "e">>,
    <<"a", "u", "t", "h">>,
    <<"m", "e", "r", "c", "h", "a", "n", "t">>
  >>

\* the nonItemKeywords of parseReceiptTextIntelligent: the same and more
nonItemKeywords ==
  simpleNonItemKeywords \o
  <<
    <<"p", "h", "o", "n", "e">>,
    <<"a", "d", "d", "r", "e", "s", "s">>,
    <<"s", "t", "r", "e", "e", "t">>,
    <<"c", "i", "t", "y">>,
    <<"s", "t", "a", "t", "e">>,
    <<"z", "i", "p">>,
    <<"w", "w", "w">>,
    <<"h", "t", "t", "p">>,
    <<".", "c", "o", "m">>,
    <<"m", "a", "n", "a", "g", "e", "r">>,
    <<"c", "u", "s", "t", "o", "m", "e", "r">>,
    <<"s", "e", "r", "v", "i", "c", "e">>,
    <<"r", "e", "t", "u", "r", "n">>,
    <<"p", "o", "l", "i", "c", "y">>,
    <<"h", "o", "u", "r", "s">>,
    <<"o", "p", "e", "n">>,
    <<"c", "l", "o", "s", "e", "d">>,
    <<"t", "e", "n", "d", "e", "r">>,
    <<"p", "a", "y", "m", "e", "n", "t">>,
    <<"m", "e", "t", "h", "o", "d">>,
    <<"a", "c", "c", "o", "u", "n", "t">>,
    <<"b", "a", "l", "a", "n", "c", "e">>,
    <<"p", "o", "i", "n", "t", "s">>,
    <<"r", "e", "w", "a", "r", "d", "s">>,
    <<"d", "i", "s", "c", "o", "u", "n", "t">>,
    <<"c", "o", "u", "p", "o", "n">>,
    <<"s", "a", "v", "i", "n", "g", "s">>,
    <<"p", "r", "o", "m", "o", "t", "i", "o", "n">>,
    <<"o", "f", "f", "e", "r">>,
    <<"s", "a", "l", "e">>
  >>

storePatterns ==
  <<
    \* /walmart/i
    Rei(Lit(<<"w", "a", "l", "m", "a", "r", "t">>)),
    \* /target/i
    Rei(Lit(<<"t", "a", "r", "g", "e", "t">>)),
    \* /costco/i
    Rei(Lit(<<"c", "o", "s", "t", "c", "o">>)),
    \* /home\s*depot/i
    Rei(Cat(<<Lit(<<"h", "o", "m", "e">>), Star(Ws), Lit(<<"d", "e", "p",
      "o", "t">>)>>)),
    \* /lowes/i
    Rei(Lit(<<"l", "o", "w", "e", "s">>)),
    \* /kroger/i
    Rei(Lit(<<"k", "r", "o", "g", "e", "r">>)),
    \* /safeway/i
    Rei(Lit(<<"s", "a", "f", "e", "w", "a", "y">>)),
    \* /albertsons/i
    Rei(Lit(<<"a", "l", "b", "e", "r", "t", "s", "o", "n", "s">>)),
    \* /publix/i
    Rei(Lit(<<"p", "u", "b", "l", "i", "x">>)),
    \* /whole\s*foods/i
    Rei(Cat(<<Lit(<<"w", "h", "o", "l", "e">>), Star(Ws), Lit(<<"f", "o",
      "o", "d", "s">>)>>)),
    \* /trader\s*joe/i
    Rei(Cat(<<Lit(<<"t", "r", "a", "d", "e", "r">>), Star(Ws), Lit(<<"j",
      "o", "e">>)>>)),
    \* /cvs/i
    Rei(Lit(<<"c", "v", "s">>)),
    \* /walgreens/i
    Rei(Lit(<<"w", "a", "l", "g", "r", "e", "e", "n", "s">>)),
    \* /rite\s*aid/i
    Rei(Cat(<<Lit(<<"r", "i", "t", "e">>), Star(Ws), Lit(<<"a", "i",
      "d">>)>>)),
    \* /best\s*buy/i
    Rei(Cat(<<Lit(<<"b", "e", "s", "t">>), Star(Ws), Lit(<<"b", "u",
      "y">>)>>)),
    \* /staples/i
    Rei(Lit(<<"s", "t", "a", "p", "l", "e", "s">>)),
    \* /office\s*depot/i
    Rei(Cat(<<Lit(<<"o", "f", "f", "i", "c", "e">>), Star(Ws), Lit(<<"d",
      "e", "p", "o", "t">>)>>)),
    \* /mcdonald/i
    Rei(Lit(<<"m", "c", "d", "o", "n", "a", "l", "d">>)),
    \* /burger\s*king/i
    Rei(Cat(<<Lit(<<"b", "u", "r", "g", "e", "r">>), Star(Ws), Lit(<<"k",
      "i", "n", "g">>)>>)),
    \* /kfc/i
    Rei(Lit(<<"k", "f", "c">>)),
    \* /subway/i
    Rei(Lit(<<"s", "u", "b", "w", "a", "y">>)),
    \* /starbucks/i
    Rei(Lit(<<"s", "t", "a", "r", "b", "u", "c", "k", "s">>)),
    \* /dunkin/i
    Rei(Lit(<<"d", "u", "n", "k", "i", "n">>)),
    \* /shell/i
    Rei(Lit(<<"s", "h", "e", "l", "l">>)),
    \* /exxon/i
    Rei(Lit(<<"e", "x", "x", "o", "n">>)),
    \* /chevron/i
    Rei(Lit(<<"c", "h", "e", "v", "r", "o", "n">>)),
    \* /bp/i
    Rei(Lit(<<"b", "p">>)),
    \* /mobil/i
    Rei(Lit(<<"m", "o", "b", "i", "l">>)),
    \* /texaco/i
    Rei(Lit(<<"t", "e", "x", "a", "c", "o">>))
  >>

qtyPatterns ==
  <<
    \* /^(\d+)\s*[xX]\s*/
    Re(Cat(<<Bol, Grp(1, Plus(D)), Star(Ws), Cs({"x", "X"}), Star(Ws)>>)),
    \* /^QTY\s*(\d+)\s*/i
    Rei(Cat(<<Bol, Lit(<<"Q", "T", "Y">>), Star(Ws), Grp(1, Plus(D)),
      Star(Ws)>>)),
    \* /^(\d+)\s*@\s*/
    Re(Cat(<<Bol, Grp(1, Plus(D)), Star(Ws), Ch("@"), Star(Ws)>>)),
    \* /^\*\s*(\d+)\s*/
    Re(Cat(<<Bol, Ch("*"), Star(Ws), Grp(1, Plus(D)), Star(Ws)>>))
  >>

\* /^\d+$/
AllDigits == Re(Cat(<<Bol, Plus(D), Eol>>))
\* /^[A-Z][a-z]+/
ProperCase == Re(Cat(<<Bol, Cs(Uppers), Plus(Cs(Lowers))>>))
\* /\d/
AnyDigit == Re(D)
\* /[a-zA-Z]/
AnyLetter == Re(Cs(Letters))
\* /\d+\.\d{2}/
TwoDecimals == Re(Cat(<<Plus(D), Ch("."), Rep(D, 2, 2)>>))
\* /\$?\d+\.\d{2}/
DollarAmount == Re(Cat(<<Opt(Ch("$")), Plus(D), Ch("."), Rep(D, 2, 2)>>))
\* /\$?(\d+\.\d{2})/
DollarAmountGroup ==
  Re(Cat(<<Opt(Ch("$")), Grp(1, Cat(<<Plus(D), Ch("."), Rep(D, 2, 2)>>))>>))
\* /[a-zA-Z]{5,}/
FiveLetters == Re(Rep(Cs(Letters), 5, -1))
\* /^[\-\*=]{3,}$/
DividerLine == Re(Cat(<<Bol, Rep(Cs({"-", "*", "="}), 3, -1), Eol>>))
\* /^#{2,}$/
HashLine == Re(Cat(<<Bol, Rep(Ch("#"), 2, -1), Eol>>))
\* /^\d{10,}$/
LongNumber == Re(Cat(<<Bol, Rep(D, 10, -1), Eol>>))
\* /^[A-Z\s]{20,}$/
LongCapsLine == Re(Cat(<<Bol, Rep(Cs(Uppers \cup Spaces), 20, -1), Eol>>))
\* /^\*+\s*/
LeadingAsterisks == Re(Cat(<<Bol, Plus(Ch("*")), Star(Ws)>>))
\* /\s*\*+$/
TrailingAsterisks == Re(Cat(<<Star(Ws), Plus(Ch("*")), Eol>>))
\* /^\d+\s*/
LeadingNumber == Re(Cat(<<Bol, Plus(D), Star(Ws)>>))
\* /\s{2,}/g
SpaceRun == Re(Rep(Ws, 2, -1))
\* /[^\w\s\-\&\.\,]/g
SpecialChar == Re(NCs(WordChars \cup Spaces \cup {"-", "&", ".", ","}))

\* the patterns of parseReceiptText
\* /\b\d{1,2}[\/\-]\d{1,2}[\/\-](\d{2}|\d{4})\b/
datePattern ==
  Re(Cat(<<Wb, Rep(D, 1, 2), Cs({"/", "-"}), Rep(D, 1, 2), Cs({"/", "-"}),
    Grp(1, Alt(<<Rep(D, 2, 2), Rep(D, 4, 4)>>)), Wb>>))
\* /\$?\d+\.\d{2}/
pricePattern == Re(Cat(<<Opt(Ch("$")), Plus(D), Ch("."), Rep(D, 2, 2)>>))
\* /(total|grand\s*total|amount\s*due)\s*:?\s*\$?(\d+\.\d{2})/i
totalPattern ==
  Rei(Cat(<<Grp(1, Alt(<<Lit(<<"t", "o", "t", "a", "l">>), Cat(<<Lit(<<"g",
    "r", "a", "n", "d">>), Star(Ws), Lit(<<"t", "o", "t", "a", "l">>)>>),
    Cat(<<Lit(<<"a", "m", "o", "u", "n", "t">>), Star(Ws), Lit(<<"d", "u",
    "e">>)>>)>>)), Star(Ws), Opt(Ch(":")), Star(Ws), Opt(Ch("$")), Grp(2,
    Cat(<<Plus(D), Ch("."), Rep(D, 2, 2)>>))>>))
\* /(subtotal|sub\s*total)\s*:?\s*\$?(\d+\.\d{2})/i
subtotalPattern ==
  Rei(Cat(<<Grp(1, Alt(<<Lit(<<"s", "u", "b", "t", "o", "t", "a", "l">>),
    Cat(<<Lit(<<"s", "u", "b">>), Star(Ws), Lit(<<"t", "o", "t", "a",
    "l">>)>>)>>)), Star(Ws), Opt(Ch(":")), Star(Ws), Opt(Ch("$")), Grp(2,
    Cat(<<Plus(D), Ch("."), Rep(D, 2, 2)>>))>>))
\* /(tax|hst|gst|pst|sales\s*tax)\s*:?\s*\$?(\d+\.\d{2})/i
taxPattern ==
  Rei(Cat(<<Grp(1, Alt(<<Lit(<<"t", "a", "x">>), Lit(<<"h", "s", "t">>),
    Lit(<<"g", "s", "t">>), Lit(<<"p", "s", "t">>), Cat(<<Lit(<<"s", "a",
    "l", "e", "s">>), Star(Ws), Lit(<<"t", "a", "x">>)>>)>>)), Star(Ws),
    Opt(Ch(":")), Star(Ws), Opt(Ch("$")), Grp(2, Cat(<<Plus(D), Ch("."),
    Rep(D, 2, 2)>>))>>))
\* /^\d+\s*x?\s*/i
QuantityPrefix == Rei(Cat(<<Bol, Plus(D), Star(Ws), Opt(Ch("x")), Star(Ws)>>))
\* /^(\d+)\s*x?\s*/i
QuantityPrefixGroup ==
  Rei(Cat(<<Bol, Grp(1, Plus(D)), Star(Ws), Opt(Ch("x")), Star(Ws)>>))
\* /\s+/g
Blanks == Re(Plus(Ws))

(***************************************************************************)
(* parseReceiptTextIntelligent and its helpers                             *)
(***************************************************************************)
\* s.replace(re, w) with the g flag; the patterns used never match ''
RECURSIVE ReplaceAllWithFrom(_, _, _, _)
ReplaceAllWithFrom(re, s, w, from) ==
  LET m == ExecFrom(re, s, from)
  IN  IF ~m.found \/ m.e = m.s THEN Slice(s, from, Len(s) + 1)
      ELSE Slice(s, from, m.s) \o w \o ReplaceAllWithFrom(re, s, w, m.e)

ReplaceAllWith(re, s, w) == ReplaceAllWithFrom(re, s, w, 1)

\* text.split('\n')
RECURSIVE SplitFrom(_, _)
SplitFrom(s, i) ==
  LET breaks == {j \in i..Len(s) : s[j] = "\n"}
      j == CHOOSE b \in breaks : \A c \in breaks : b <= c
  IN  IF breaks = {} THEN <<Slice(s, i, Len(s) + 1)>>
      ELSE <<Slice(s, i, j)>> \o SplitFrom(s, j + 1)

\* the lines that are not blank
NonBlankLines(text) == SelectSeq(SplitFrom(text, 1), LAMBDA line : Trim(line) # <<>>)

\* the lines of parseReceiptTextIntelligent: not blank, and trimmed
TrimmedLines(text) ==
  LET kept == NonBlankLines(text) IN [i \in 1..Len(kept) |-> Trim(kept[i])]

\* patterns.some(p => p.test(line))
SomeTest(patterns, line) == \E i \in 1..Len(patterns) : Test(patterns[i], line)

\* keywords.some(keyword => lowered.includes(keyword))
SomeIncluded(keywords, lowered) ==
  \E i \in 1..Len(keywords) : Includes(lowered, keywords[i])

Receipt == <<"r", "e", "c", "e", "i", "p", "t">>
Invoice == <<"i", "n", "v", "o", "i", "c", "e">>
Dollar == <<"$">>

isNonItemLine(line) ==
  \/ SomeIncluded(nonItemKeywords, ToLowerCase(line))
  \/ SomeTest(totalPatterns, line)
  \/ SomeTest(subtotalPatterns, line)
  \/ SomeTest(taxPatterns, line)
  \/ SomeTest(datePatterns, line)
  \/ Test(DividerLine, line)
  \/ Test(HashLine, line)
  \/ Test(LongNumber, line)
  \/ Test(LongCapsLine, line)
  \/ Len(line) < 2

\* isValidItemName without its test of the length
IsValidItemNameOfAnyLength(name) ==
  /\ Len(name) >= 2
  /\ ~SomeIncluded(nonItemKeywords, ToLowerCase(name))
  /\ Test(AnyLetter, name)
  /\ ~Test(AllDigits, name)

isValidItemName(name) ==
  /\ Len(name) >= 2
  /\ ~SomeIncluded(nonItemKeywords, ToLowerCase(name))
  /\ Test(AnyLetter, name)
  /\ ~Test(AllDigits, name)
  /\ ~(Len(name) > 40)

cleanItemName(name) ==
  Trim(ReplaceAll(SpecialChar,
         ReplaceAllWith(SpaceRun,
           ReplaceFirst(LeadingNumber,
             ReplaceFirst(TrailingAsterisks,
               ReplaceFirst(LeadingAsterisks, name))),
           <<" ">>)))

isLikelyPrice(line) == Test(DollarAmount, line) /\ ~Test(FiveLetters, line)

\* price, with a dollar sign put before it when it has none
WithDollar(price) == IF "$" \in Range(price) THEN price ELSE Dollar \o price

\* extractPrice: the first amount of the line with its dollar sign, or null
extractPrice(line) ==
  LET m == Match(DollarAmount, line)
  IN  IF m.found THEN Str(WithDollar(Matched(line, m))) ELSE Null

\* the score of a line as the vendor, in tenths
VendorScore(line, i) ==
  5 + (IF i < 3 THEN 2 ELSE 0)
    + (IF Test(ProperCase, line) THEN 1 ELSE 0)
    - (IF line = ToUpperCase(line) /\ Len(line) > 10 THEN 2 ELSE 0)
    - (IF Test(AnyDigit, line) THEN 1 ELSE 0)

VendorCandidate(line) ==
  /\ Len(line) > 2
  /\ Len(line) < 50
  /\ ~SomeTest(datePatterns, line)
  /\ ~Test(timePattern, line)
  /\ ~SomeTest(pricePatterns, line)
  /\ ~Test(AllDigits, line)
  /\ ~Includes(ToLowerCase(line), Receipt)
  /\ ~Includes(ToLowerCase(line), Invoice)

(* The first pass from line i (counted from 0) on, with the vendor and its
   confidence so far: a line that names a known store is the vendor with
   confidence 0.9; otherwise, while there is no vendor, a candidate line
   becomes the vendor with its score.  The loop ends after ten lines or once
   the confidence is above 0.8. *)
RECURSIVE VendorPass(_, _, _)
VendorPass(lines, i, found) ==
  IF i >= Len(lines) \/ i >= 10 THEN found
  ELSE LET line == lines[i + 1]
           known == IF SomeTest(storePatterns, line)
                    THEN [vendor |-> Str(line), confidence |-> 9]
                    ELSE found
           scored == IF /\ ~Truthy(known.vendor)
                        /\ VendorCandidate(line)
                        /\ VendorScore(line, i) > known.confidence
                     THEN [vendor |-> Str(line), confidence |-> VendorScore(line, i)]
                     ELSE known
       IN  IF Truthy(scored.vendor) /\ scored.confidence > 8 THEN scored
           ELSE VendorPass(lines, i + 1, scored)

NoVendor == [vendor |-> Null, confidence |-> 0]

\* the first pattern of the list that matches the line, 0 if none does
FirstPattern(patterns, line) ==
  LET hits == {i \in 1..Len(patterns) : Test(patterns[i], line)}
  IN  IF hits = {} THEN 0 ELSE CHOOSE i \in hits : \A j \in hits : i <= j

\* the second pass: match[0] of the first line a date pattern matches
RECURSIVE DatePass(_, _)
DatePass(lines, i) ==
  IF i > Len(lines) THEN Null
  ELSE LET p == FirstPattern(datePatterns, lines[i])
       IN  IF p = 0 THEN DatePass(lines, i + 1)
           ELSE Str(Matched(lines[i], Match(datePatterns[p], lines[i])))

(* The amount a list of patterns finds in a line: of the first pattern that
   matches with an amount that holds digits, a point and two digits, "$"
   and the amount.  The amount is match[2], or match[1] when orFirst. *)
AmountOf(pattern, line, orFirst) ==
  LET m == Match(pattern, line)
      second == Group(line, m, 2)
  IN  IF ~m.found THEN <<>>
      ELSE IF second = <<>> /\ orFirst THEN Group(line, m, 1)
      ELSE second

FoundAmount(patterns, line, orFirst) ==
  LET good == {i \in 1..Len(patterns) :
                 Test(TwoDecimals, AmountOf(patterns[i], line, orFirst))}
      first == CHOOSE i \in good : \A j \in good : i <= j
  IN  IF good = {} THEN Null
      ELSE Str(Dollar \o AmountOf(patterns[first], line, orFirst))

\* the third pass: each of total, subtotal and tax is set by the first line
\* in which it is found
RECURSIVE FinancialPass(_, _, _)
FinancialPass(lines, i, found) ==
  IF i > Len(lines) THEN found
  ELSE LET line == lines[i]
       IN  FinancialPass(lines, i + 1,
             [total |-> IF Truthy(found.total) THEN found.total
                        ELSE FoundAmount(totalPatterns, line, TRUE),
              subtotal |-> IF Truthy(found.subtotal) THEN found.subtotal
                           ELSE FoundAmount(subtotalPatterns, line, FALSE),
              tax |-> IF Truthy(found.tax) THEN found.tax
                      ELSE FoundAmount(taxPatterns, line, FALSE)])

NoAmounts == [total |-> Null, subtotal |-> Null, tax |-> Null]
Item(name, price, quantity) ==
  Obj(kName :> Str(name) @@ kPrice :> price @@ kQuantity :> quantity
      @@ kLineTotal :> price)

\* the price of an item line: of the first price pattern that matches,
\* match[1] || match[0] with a dollar sign
LinePrice(line) ==
  LET p == FirstPattern(pricePatterns, line)
      m == Match(pricePatterns[p], line)
  IN  IF p = 0 THEN Null
      ELSE Str(WithDollar(IF Group(line, m, 1) # <<>> THEN Group(line, m, 1)
                          ELSE Matched(line, m)))

\* the line after each price pattern in turn has had its first match removed
RECURSIVE WithoutPrices(_, _)
WithoutPrices(name, p) ==
  IF p > Len(pricePatterns) THEN name
  ELSE WithoutPrices(Trim(ReplaceFirst(pricePatterns[p], name)), p + 1)

\* the quantity marker before the name: quantity 1 when there is none
QuantityOf(itemName) ==
  LET p == FirstPattern(qtyPatterns, itemName)
  IN  IF p = 0 THEN [quantity |-> Num(One), name |-> itemName]
      ELSE [quantity |-> ParseInt(Str(Group(itemName, Match(qtyPatterns[p], itemName), 1))),
            name |-> Trim(ReplaceFirst(qtyPatterns[p], itemName))]

ItemName == <<"I", "t", "e", "m">>

\* the items line i (counted from 1) adds in the fourth pass
LineItems(lines, i) ==
  LET line == lines[i]
      nextLine == IF i + 1 <= Len(lines) THEN lines[i + 1] ELSE <<>>
      price == LinePrice(line)
      marked == QuantityOf(WithoutPrices(line, 1))
      itemName == cleanItemName(marked.name)
      nextPrice == extractPrice(nextLine)
  IN  IF isNonItemLine(line) THEN <<>>
      ELSE IF Truthy(price)
      THEN IF isValidItemName(itemName)
           THEN <<Item(IF itemName = <<>> THEN ItemName ELSE itemName,
                       price, marked.quantity)>>
           ELSE <<>>
      ELSE IF nextLine # <<>> /\ isLikelyPrice(nextLine) /\ isValidItemName(line)
                /\ Truthy(nextPrice)
      THEN <<Item(cleanItemName(line), nextPrice, Num(One))>>
      ELSE <<>>

RECURSIVE ItemPass(_, _)
ItemPass(lines, i) ==
  IF i > Len(lines) THEN <<>> ELSE LineItems(lines, i) \o ItemPass(lines, i + 1)

\* the item line i adds in the fifth pass, run when the fourth found none
FallbackLineItems(line) ==
  LET price == extractPrice(line)
      itemName == cleanItemName(Trim(ReplaceAll(DollarAmount, line)))
  IN  IF /\ Len(line) > 2
         /\ Test(AnyLetter, line)
         /\ Test(AnyDigit, line)
         /\ ~isNonItemLine(line)
         /\ Truthy(price)
         /\ Len(itemName) > 1
      THEN <<Item(itemName, price, Num(One))>>
      ELSE <<>>

RECURSIVE FallbackPass(_, _)
FallbackPass(lines, i) ==
  IF i > Len(lines) THEN <<>>
  ELSE FallbackLineItems(lines[i]) \o FallbackPass(lines, i + 1)

NoItemsDetected ==
  <<"N", "o", " ", "i", "t", "e", "m", "s", " ", "d", "e", "t", "e", "c", "t", "e", "d">>
NotApplicable == <<"N", "/", "A">>
UnknownTotal == <<"U", "n", "k", "n", "o", "w", "n">>
UnknownDate == <<"U", "n", "k", "n", "o", "w", "n", " ", "D", "a", "t", "e">>

\* the item returned in the place of an empty list
PlaceholderItem == Item(NoItemsDetected, Str(NotApplicable), Num(<<"0">>))

\* Math.min(0.9, items.length * 0.3) in tenths
ItemsConfidence(items) == IF Len(items) * 3 < 9 THEN Len(items) * 3 ELSE 9

\* the record parseReceiptTextIntelligent returns
IntelligentReceipt(found, date, amounts, items) ==
  Obj(kVendor :> Or(found.vendor, Str(UnknownVendor))
      @@ kDate :> Or(date, Str(TodayUs))
      @@ kTotal :> Or(amounts.total, Str(UnknownTotal))
      @@ kSubtotal :> Or(amounts.subtotal, Null)
      @@ kTax :> Or(amounts.tax, Null)
      @@ kItems :> Arr(IF Len(items) > 0 THEN items ELSE <<PlaceholderItem>>)
      @@ kConfidence :>
           Obj(kVendor :> IntV(found.confidence)
               @@ kDate :> IntV(IF Truthy(date) THEN 9 ELSE 0)
               @@ kItems :> IntV(ItemsConfidence(items))
               @@ kTotal :> IntV(IF Truthy(amounts.total) THEN 9 ELSE 0)))

parseReceiptTextIntelligent(text) ==
  LET lines == TrimmedLines(text)
      primary == ItemPass(lines, 1)
      items == IF Len(primary) = 0 THEN FallbackPass(lines, 1) ELSE primary
  IN  IntelligentReceipt(VendorPass(lines, 0, NoVendor), DatePass(lines, 1),
                         FinancialPass(lines, 1, NoAmounts), items)

(***************************************************************************)
(* parseReceiptText, the simpler parser                                    *)
(***************************************************************************)
SimpleVendorCandidate(line) ==
  /\ Len(line) > 2
  /\ ~Test(datePattern, line)
  /\ ~Test(timePattern, line)
  /\ ~Test(pricePattern, line)
  /\ ~Test(AllDigits, line)
  /\ Len(line) < 50

\* the first of the five first lines that can be a vendor
SimpleVendor(lines) ==
  LET hits == {i \in 1..Len(lines) : i <= 5 /\ SimpleVendorCandidate(Trim(lines[i]))}
  IN  IF hits = {} THEN Null
      ELSE Str(Trim(lines[CHOOSE i \in hits : \A j \in hits : i <= j]))

\* '$' + match[2] of the pattern, or null when the line does not match
SimpleAmount(pattern, line) ==
  LET m == Match(pattern, line)
  IN  IF m.found THEN Str(Dollar \o Group(line, m, 2)) ELSE Null

\* the item a priced line gives, if its name looks like an item's
SimpleLineItems(line) ==
  LET price == Matched(line, Match(pricePattern, line))
      itemName == ReplaceAllWith(Blanks,
                    ReplaceFirst(QuantityPrefix, Trim(ReplaceFirst(pricePattern, line))),
                    <<" ">>)
      qtyMatch == Match(QuantityPrefixGroup, line)
      quantity == IF qtyMatch.found THEN ParseInt(Str(Group(line, qtyMatch, 1)))
                  ELSE Num(One)
  IN  IF /\ Test(pricePattern, line)
         /\ ~Test(totalPattern, line)
         /\ ~Test(subtotalPattern, line)
         /\ ~Test(taxPattern, line)
         /\ Len(itemName) > 1
         /\ ~SomeIncluded(simpleNonItemKeywords, ToLowerCase(itemName))
      THEN <<Item(itemName, Str(price), quantity)>>
      ELSE <<>>

NothingFound ==
  [date |-> Null, total |-> Null, subtotal |-> Null, tax |-> Null, items |-> <<>>]

\* the second pass: one loop sets the date and the amounts, each by the first
\* line in which it is found, and collects the items
RECURSIVE SimpleScan(_, _, _)
SimpleScan(lines, i, found) ==
  IF i > Len(lines) THEN found
  ELSE LET line == Trim(lines[i])
           dateMatch == Match(datePattern, line)
       IN  SimpleScan(lines, i + 1,
             [date |-> IF ~Truthy(found.date) /\ dateMatch.found
                       THEN Str(Matched(line, dateMatch)) ELSE found.date,
              total |-> IF Truthy(found.total) THEN found.total
                        ELSE SimpleAmount(totalPattern, line),
              subtotal |-> IF Truthy(found.subtotal) THEN found.subtotal
                           ELSE SimpleAmount(subtotalPattern, line),
              tax |-> IF Truthy(found.tax) THEN found.tax
                      ELSE SimpleAmount(taxPattern, line),
              items |-> found.items \o SimpleLineItems(line)])

SimpleFallbackLineItems(line) ==
  LET priceMatch == Match(DollarAmountGroup, line)
      itemName == Trim(ReplaceAll(DollarAmount, line))
      price == Str(Dollar \o Group(line, priceMatch, 1))
  IN  IF /\ Len(line) > 3
         /\ Test(AnyLetter, line)
         /\ Test(AnyDigit, line)
         /\ ~Test(datePattern, line)
         /\ ~Test(timePattern, line)
         /\ ~Test(totalPattern, line)
         /\ ~Test(subtotalPattern, line)
         /\ ~Test(taxPattern, line)
         /\ priceMatch.found
         /\ Len(itemName) > 1
      THEN <<Item(itemName, price, Num(One))>>
      ELSE <<>>

RECURSIVE SimpleFallback(_, _)
SimpleFallback(lines, i) ==
  IF i > Len(lines) THEN <<>>
  ELSE SimpleFallbackLineItems(Trim(lines[i])) \o SimpleFallback(lines, i + 1)

\* the record parseReceiptText returns
SimpleReceipt(vendor, found, items) ==
  Obj(kVendor :> Or(vendor, Str(UnknownVendor))
      @@ kDate :> Or(found.date, Str(UnknownDate))
      @@ kTotal :> Or(found.total, Str(UnknownTotal))
      @@ kSubtotal :> Or(found.subtotal, Null)
      @@ kTax :> Or(found.tax, Null)
      @@ kItems :> Arr(IF Len(items) > 0 THEN items ELSE <<PlaceholderItem>>))

parseReceiptText(text) ==
  LET lines == NonBlankLines(text)
      found == SimpleScan(lines, 1, NothingFound)
      items == IF Len(found.items) = 0 THEN SimpleFallback(lines, 1) ELSE found.items
  IN  SimpleReceipt(SimpleVendor(lines), found, items)

(***************************************************************************)
(* The Bedrock stage's functions, of the Nova handler ("nova") and of the  *)
(* Claude handler ("claude").  A function that throws yields Thrown.       *)
(***************************************************************************)

\* value.replace(/[^0-9.]/g, '')
StripNonNumeric(s) == ReplaceAll(Re(NCs(Digits \cup {"."})), s)

\* items.map(f) where f may throw: the mapped array, or Thrown
MapItems(mapped) ==
  IF \E i \in 1..Len(mapped) : IsThrown(mapped[i]) THEN Thrown ELSE Arr(mapped)

FallbackItemNova(item) ==
  Obj(kName :> Or(Get(item, kItem), Or(Get(item, kDescription), Str(UnknownItem)))
      @@ kPrice :> Or(Get(item, kPrice), Or(Get(item, kAmount), Str(ZeroPrice)))
      @@ kQuantity :> Or(Get(item, kQuantity), Str(One)))

CreateFallbackDataNova(textractResult) ==
  LET summaryFields == Get(textractResult, kSummaryFields)
      lineItems == Get(textractResult, kLineItems)
      store == Or(Get(summaryFields, kVendor),
                  Or(Get(summaryFields, kName), Str(UnknownStore)))
      items == IF IsArray(lineItems) /\ HasLength(lineItems)
               THEN Arr([i \in 1..Len(lineItems.a) |-> FallbackItemNova(lineItems.a[i])])
               ELSE Arr(<<>>)
  IN  Obj(kMerchant :> store
          @@ kVendor :> store
          @@ kDate :> Or(Get(summaryFields, kDate), Str(TodayIso))
          @@ kTotal :> Or(Get(summaryFields, kTotal), Str(ZeroPrice))
          @@ kSubtotal :> Or(Get(summaryFields, kSubtotal), Str(ZeroPrice))
          @@ kTax :> Or(Get(summaryFields, kTax), Str(ZeroPrice))
          @@ kItems :> items)

\* field.value.replace(...): a TypeError unless the value is a string
StrippedValue(field) ==
  LET value == Get(field, kValue)
  IN  IF IsStr(value) THEN Str(StripNonNumeric(value.s)) ELSE Thrown

\* item.PRICE?.value?.replace(...) || "0.00"
FallbackPriceClaude(item) ==
  LET value == Get(Get(item, PRICE), kValue)
  IN  IF ~CanRead(value) THEN Str(ZeroPrice)
      ELSE IF ~IsStr(value) THEN Thrown
      ELSE Or(Str(StripNonNumeric(value.s)), Str(ZeroPrice))

FallbackItemClaude(item, index) ==
  LET price == FallbackPriceClaude(item)
  IN  IF IsThrown(price) THEN Thrown
      ELSE Obj(kName :> Or(Get(Get(item, ITEM), kValue),
                           Str(ItemPrefix \o NatToStr(index)))
               @@ kQuantity :> Or(ParseInt(Get(Get(item, QUANTITY), kValue)),
                                  Num(One))
               @@ kPrice :> price
               @@ kLineTotal :> price)

\* fallback[key] = summaryFields[type].value, stripped for an amount
FallbackField(summaryFields, type, stripped, default) ==
  LET field == Get(summaryFields, type)
  IN  IF ~Truthy(summaryFields) \/ ~Truthy(field) THEN default
      ELSE IF stripped THEN StrippedValue(field)
      ELSE Get(field, kValue)

\* a createFallbackData that asks the vendor pass of the heuristic parser for
\* the vendor the summary fields do not give
CreateFallbackDataClaudeHeuristic(textractResult) ==
  LET summaryFields == Get(textractResult, kSummaryFields)
      lineItems == Get(textractResult, kLineItems)
      rawText == Get(textractResult, kRawText)
      total == FallbackField(summaryFields, TOTAL, TRUE, Str(ZeroPrice))
      subtotal == FallbackField(summaryFields, SUBTOTAL, TRUE, Null)
      tax == FallbackField(summaryFields, TAX, TRUE, Null)
      items == IF IsArray(lineItems) /\ HasLength(lineItems)
               THEN MapItems([i \in 1..Len(lineItems.a) |->
                                FallbackItemClaude(lineItems.a[i], i)])
               ELSE Arr(<<>>)
      heuristic == IF IsStr(rawText)
                   THEN Or(VendorPass(TrimmedLines(rawText.s), 0, NoVendor).vendor,
                           Str(UnknownVendor))
                   ELSE Str(UnknownVendor)
  IN  IF ~Truthy(textractResult)
      THEN Obj(kMerchant :> Str(UnknownVendor) @@ kDate :> Str(TodayUs)
               @@ kTotal :> Str(ZeroPrice) @@ kSubtotal :> Null
               @@ kTax :> Null @@ kItems :> Arr(<<>>))
      ELSE IF \E v \in {total, subtotal, tax, items} : IsThrown(v) THEN Thrown
      ELSE Obj(kMerchant :> FallbackField(summaryFields, VENDOR_NAME, FALSE, heuristic)
               @@ kDate :> FallbackField(summaryFields, INVOICE_RECEIPT_DATE,
                                         FALSE, Str(TodayUs))
               @@ kTotal :> total @@ kSubtotal :> subtotal @@ kTax :> tax
               @@ kItems :> items)

CreateFallbackDataClaude(textractResult) ==
  LET summaryFields == Get(textractResult, kSummaryFields)
      lineItems == Get(textractResult, kLineItems)
      total == FallbackField(summaryFields, TOTAL, TRUE, Str(ZeroPrice))
      subtotal == FallbackField(summaryFields, SUBTOTAL, TRUE, Null)
      tax == FallbackField(summaryFields, TAX, TRUE, Null)
      items == IF IsArray(lineItems) /\ HasLength(lineItems)
               THEN MapItems([i \in 1..Len(lineItems.a) |->
                                FallbackItemClaude(lineItems.a[i], i)])
               ELSE Arr(<<>>)
  IN  IF ~Truthy(textractResult)
      THEN Obj(kMerchant :> Str(UnknownVendor) @@ kDate :> Str(TodayUs)
               @@ kTotal :> Str(ZeroPrice) @@ kSubtotal :> Null
               @@ kTax :> Null @@ kItems :> Arr(<<>>))
      ELSE IF \E v \in {total, subtotal, tax, items} : IsThrown(v) THEN Thrown
      ELSE Obj(kMerchant :> FallbackField(summaryFields, VENDOR_NAME, FALSE,
                                          Str(UnknownVendor))
               @@ kDate :> FallbackField(summaryFields, INVOICE_RECEIPT_DATE,
                                         FALSE, Str(TodayUs))
               @@ kTotal :> total @@ kSubtotal :> subtotal @@ kTax :> tax
               @@ kItems :> items)

createFallbackData(variant, textractResult) ==
  IF variant = "nova" THEN CreateFallbackDataNova(textractResult)
  ELSE CreateFallbackDataClaude(textractResult)

\* if (parsedData[key]) parsedData[key] = cleanPrice(parsedData[key])
CleanedField(parsedData, key, tieUp) ==
  IF Truthy(Get(parsedData, key))
  THEN Put(parsedData, key, Str(CleanPriceNova(Get(parsedData, key), tieUp)))
  ELSE parsedData

\* item.price and item.quantity of null or undefined throw
EnhanceItemNova(item, tieUp) ==
  IF ~CanRead(item) THEN Thrown
  ELSE Put(Put(Spread(item),
               kPrice, Str(CleanPriceNova(Or(Get(item, kPrice), Str(ZeroPrice)), tieUp))),
           kQuantity, Or(Get(item, kQuantity), Str(One)))

\* metadata.confidence is 0.85 here; the handler overwrites it at once with
\* calculateOverallConfidence, which is where the model sets it
MetadataNova(textractResult) ==
  Obj(kFieldsUsed :> IntV(CountKeys(Get(textractResult, kSummaryFields)))
      @@ kLineItemsFound :> CountItems(Get(textractResult, kLineItems)))

EnhanceParsedDataNova(parsedData, textractResult, tieUp) ==
  LET cleaned == CleanedField(CleanedField(CleanedField(parsedData, kTotal, tieUp),
                                           kSubtotal, tieUp),
                              kTax, tieUp)
      items == Get(parsedData, kItems)
      mapped == MapItems([i \in 1..Len(items.a) |-> EnhanceItemNova(items.a[i], tieUp)])
  IN  IF ~IsArray(items)
      THEN Put(cleaned, kMetadata, MetadataNova(textractResult))
      ELSE IF IsThrown(mapped) THEN Thrown
      ELSE Put(Put(cleaned, kItems, mapped), kMetadata, MetadataNova(textractResult))

\* a scorer that assigns the merchant's 0.2 where the source adds it
CalculateOverallConfidenceNovaAssigned(parsedData, textractResult) ==
  LET merchant == Get(parsedData, kMerchant)
      total == Get(parsedData, kTotal)
      items == Get(parsedData, kItems)
      date == Get(parsedData, kDate)
      overall == Get(Get(textractResult, kConfidence), kOverall)
      confidence ==
        (IF Truthy(merchant) /\ merchant # Str(UnknownStore) THEN 2000 ELSE 5000)
        + (IF Truthy(total) /\ Positive(ParseFloat(ToStr(total))) THEN 1500 ELSE 0)
        + (IF Truthy(items) /\ HasLength(items) THEN 1000 ELSE 0)
        + (IF Truthy(date) /\ date # Str(TodayIso) THEN 500 ELSE 0)
      factored == IF Truthy(overall) THEN (confidence + overall.i * 100) \div 2
                  ELSE confidence
  IN  IF factored < 10000 THEN factored ELSE 10000

\* the confidence in ten-thousandths: 0.5 is 5000
CalculateOverallConfidenceNova(parsedData, textractResult) ==
  LET merchant == Get(parsedData, kMerchant)
      total == Get(parsedData, kTotal)
      items == Get(parsedData, kItems)
      date == Get(parsedData, kDate)
      overall == Get(Get(textractResult, kConfidence), kOverall)
      confidence ==
        5000
        + (IF Truthy(merchant) /\ merchant # Str(UnknownStore) THEN 2000 ELSE 0)
        + (IF Truthy(total) /\ Positive(ParseFloat(ToStr(total))) THEN 1500 ELSE 0)
        + (IF Truthy(items) /\ HasLength(items) THEN 1000 ELSE 0)
        + (IF Truthy(date) /\ date # Str(TodayIso) THEN 500 ELSE 0)
      factored == IF Truthy(overall) THEN (confidence + overall.i * 100) \div 2
                  ELSE confidence
  IN  IF factored < 10000 THEN factored ELSE 10000

\* enhanced[key] = default when the value is falsy
Defaulted(enhanced, key, default) ==
  IF ~Truthy(Get(enhanced, key)) THEN Put(enhanced, key, Str(default)) ELSE enhanced

EnhanceItemClaude(item, tieUp) ==
  IF ~CanRead(item) THEN Thrown
  ELSE Obj(kName :> Or(Get(item, kName), Str(UnknownItem))
           @@ kQuantity :> Or(ParseInt(Get(item, kQuantity)), Num(One))
           @@ kPrice :> Str(CleanPriceClaude(Get(item, kPrice), tieUp))
           @@ kLineTotal :> Str(CleanPriceClaude(Or(Get(item, kLineTotal),
                                                    Get(item, kPrice)), tieUp)))

\* the score out of 5 as a percentage
CalculateOverallConfidenceClaude(parsedData, textractResult) ==
  LET merchant == Get(parsedData, kMerchant)
      date == Get(parsedData, kDate)
      total == Get(parsedData, kTotal)
      items == Get(parsedData, kItems)
      summaryFields == Get(textractResult, kSummaryFields)
      score ==
        (IF Truthy(merchant) /\ merchant # Str(UnknownVendor) THEN 1 ELSE 0)
        + (IF Truthy(date) /\ date # Str(TodayUs) THEN 1 ELSE 0)
        + (IF Truthy(total) /\ Positive(ParseFloat(ToStr(total))) THEN 1 ELSE 0)
        + (IF Truthy(items) /\ HasLength(items) THEN 1 ELSE 0)
        + (IF Truthy(summaryFields) /\ CountKeys(summaryFields) > 0 THEN 1 ELSE 0)
  IN  (score * 100) \div 5

EnhanceParsedDataClaude(parsedData, textractResult, tieUp) ==
  LET defaulted == Defaulted(Defaulted(Defaulted(Spread(parsedData),
                                                 kMerchant, UnknownVendor),
                                       kDate, TodayUs),
                             kTotal, ZeroPrice)
      given == Get(defaulted, kItems)
      items == IF IsArray(given) THEN given.a ELSE <<>>
      mapped == MapItems([i \in 1..Len(items) |-> EnhanceItemClaude(items[i], tieUp)])
      enhanced == Put(defaulted, kItems, mapped)
  IN  IF IsThrown(mapped) THEN Thrown
      ELSE Put(enhanced, kMetadata,
               Obj(kFieldsFound :> IntV(CountKeys(Get(textractResult, kSummaryFields)))
                   @@ kItemsFound :> CountItems(Get(textractResult, kLineItems))
                   @@ kConfidence :>
                        IntV(CalculateOverallConfidenceClaude(enhanced, textractResult))))

enhanceParsedData(variant, parsedData, textractResult, tieUp) ==
  IF variant = "nova" THEN EnhanceParsedDataNova(parsedData, textractResult, tieUp)
  ELSE EnhanceParsedDataClaude(parsedData, textractResult, tieUp)

(***************************************************************************)
(* The merchant categorizers of the persistence stage.  A keyword list is  *)
(* checked after the lists before it, as the source's if statements are.   *)
(***************************************************************************)
\* determineCategory: the stores, restaurants, gas stations, ... it names
CategoryKeywords ==
  << [category |-> "Grocery",
      keywords |-> {<<"w", "a", "l", "m", "a", "r", "t">>, <<"t", "a", "r", "g", "e", "t">>, <<"k", "r", "o", "g", "e", "r">>, <<"s", "a", "f", "e", "w", "a", "y">>, <<"a", "l", "b", "e", "r", "t", "s", "o", "n", "s">>,
                    <<"p", "u", "b", "l", "i", "x">>, <<"w", "h", "o", "l", "e", " ", "f", "o", "o", "d", "s">>, <<"t", "r", "a", "d", "e", "r", " ", "j", "o", "e">>}],
     [category |-> "Restaurant",
      keywords |-> {<<"m", "c", "d", "o", "n", "a", "l", "d">>, <<"b", "u", "r", "g", "e", "r", " ", "k", "i", "n", "g">>, <<"k", "f", "c">>, <<"s", "u", "b", "w", "a", "y">>, <<"s", "t", "a", "r", "b", "u", "c", "k", "s">>,
                    <<"d", "u", "n", "k", "i", "n">>, <<"p", "i", "z", "z", "a">>, <<"r", "e", "s", "t", "a", "u", "r", "a", "n", "t">>, <<"c", "a", "f", "e">>, <<"d", "i", "n", "e", "r">>}],
     [category |-> "Gas",
      keywords |-> {<<"s", "h", "e", "l", "l">>, <<"e", "x", "x", "o", "n">>, <<"c", "h", "e", "v", "r", "o", "n">>, <<"b", "p">>, <<"m", "o", "b", "i", "l">>, <<"t", "e", "x", "a", "c", "o">>,
                    <<"g", "a", "s">>, <<"f", "u", "e", "l">>}],
     [category |-> "Pharmacy",
      keywords |-> {<<"c", "v", "s">>, <<"w", "a", "l", "g", "r", "e", "e", "n", "s">>, <<"r", "i", "t", "e", " ", "a", "i", "d">>, <<"p", "h", "a", "r", "m", "a", "c", "y">>}],
     [category |-> "Home Improvement",
      keywords |-> {<<"h", "o", "m", "e", " ", "d", "e", "p", "o", "t">>, <<"l", "o", "w", "e", "s">>, <<"m", "e", "n", "a", "r", "d", "s">>, <<"h", "a", "r", "d", "w", "a", "r", "e">>}],
     [category |-> "Electronics",
      keywords |-> {<<"b", "e", "s", "t", " ", "b", "u", "y">>, <<"a", "p", "p", "l", "e">>, <<"m", "i", "c", "r", "o", "s", "o", "f", "t">>, <<"e", "l", "e", "c", "t", "r", "o", "n", "i", "c", "s">>}],
     [category |-> "Department Store",
      keywords |-> {<<"m", "a", "c", "y">>, <<"n", "o", "r", "d", "s", "t", "r", "o", "m">>, <<"j", "c", "p", "e", "n", "n", "e", "y">>, <<"s", "e", "a", "r", "s">>, <<"d", "e", "p", "a", "r", "t", "m", "e", "n", "t">>}] >>

\* determineReceiptCategory
ReceiptCategoryKeywords ==
  << [category |-> "Grocery",
      keywords |-> {<<"m", "a", "r", "k", "e", "t">>, <<"g", "r", "o", "c", "e", "r", "y">>, <<"f", "o", "o", "d">>, <<"s", "u", "p", "e", "r">>}],
     [category |-> "Restaurant",
      keywords |-> {<<"r", "e", "s", "t", "a", "u", "r", "a", "n", "t">>, <<"c", "a", "f", "e">>, <<"p", "i", "z", "z", "a">>, <<"b", "u", "r", "g", "e", "r">>}],
     [category |-> "Gas",
      keywords |-> {<<"g", "a", "s">>, <<"f", "u", "e", "l">>, <<"s", "h", "e", "l", "l">>, <<"e", "x", "x", "o", "n">>}],
     [category |-> "Retail",
      keywords |-> {<<"s", "t", "o", "r", "e">>, <<"s", "h", "o", "p">>, <<"r", "e", "t", "a", "i", "l">>}] >>

\* the lists of which a keyword occurs in the text
ListsFound(lists, text) ==
  {i \in 1..Len(lists) : \E keyword \in lists[i].keywords : Includes(text, keyword)}

\* the if statements in turn: the category of the first list with a keyword
\* in the text, "Other" after the last
FirstCategory(lists, text) ==
  LET Earliest(found) == IF found = {} THEN "Other" ELSE lists[Min(found)].category
  IN  Earliest(ListsFound(lists, text))

\* a categorizer that looks for the keywords in the name as it is written
DetermineCategoryAsWritten(vendor) ==
  IF ~Truthy(vendor) THEN "Other"
  ELSE IF ~IsStr(vendor) THEN "TypeError"
  ELSE FirstCategory(CategoryKeywords, vendor.s)

\* vendor.toLowerCase is not a function of a number or an object
determineCategory(vendor) ==
  IF ~Truthy(vendor) THEN "Other"
  ELSE IF ~IsStr(vendor) THEN "TypeError"
  ELSE FirstCategory(CategoryKeywords, ToLowerCase(vendor.s))

\* without the guard of determineCategory: null and undefined throw as well
determineReceiptCategory(vendor) ==
  IF ~IsStr(vendor) THEN "TypeError"
  ELSE FirstCategory(ReceiptCategoryKeywords, ToLowerCase(vendor.s))

(***************************************************************************)
(* The persistence stage: the DynamoDB handlers, which build the receipt   *)
(* record of a Bedrock result.  The record of the model keeps the receipt, *)
(* its items, the confidence and the category; the timestamps, the        *)
(* retention time and the statistics computed from the items are left out. *)
(***************************************************************************)
\* the Number a parsed literal is
NumberValue(n) == IF n.nan THEN NumNaN ELSE Num(NumberToString(n))

\* parseFloat(value) of a JavaScript value
ParseFloatOf(v) == ParseFloat(ToStr(v))

(* a * b of two numbers.  The product of the literals is the double the
   engine computes when one factor is 0, 1, -1 or 2, as the quantities of
   the model are. *)
Times(a, b) ==
  LET Point(digits, places) ==
        [nan |-> FALSE, neg |-> a.neg # b.neg,
         ip |-> StripZeros(Slice(digits, 1, Len(digits) - places + 1)),
         fp |-> Slice(digits, Len(digits) - places + 1, Len(digits) + 1)]
      Padded(digits, places) ==
        Point(IF Len(digits) <= places
              THEN [i \in 1..(places + 1 - Len(digits)) |-> "0"] \o digits
              ELSE digits, places)
  IN  IF a.nan \/ b.nan THEN NaN
      ELSE Padded(NatToStr(DigitsToNat(a.ip \o a.fp) * DigitsToNat(b.ip \o b.fp)),
                  Len(a.fp) + Len(b.fp))

\* value.toLowerCase(): a TypeError unless the value is a string
LowerCased(v) == IF IsStr(v) THEN Str(ToLowerCase(v.s)) ELSE Thrown

\* determineItemCategory
ItemCategoryKeywords ==
  << [category |-> "Food", keywords |-> {<<"f", "o", "o", "d">>, <<"b", "r", "e", "a", "d">>, <<"m", "i", "l", "k">>}],
     [category |-> "Beverage", keywords |-> {<<"d", "r", "i", "n", "k">>, <<"s", "o", "d", "a">>, <<"w", "a", "t", "e", "r">>}],
     [category |-> "Fuel", keywords |-> {<<"g", "a", "s">>, <<"f", "u", "e", "l">>}] >>

determineItemCategory(itemName) ==
  LET Earliest(found) ==
        IF found = {} THEN "General" ELSE ItemCategoryKeywords[Min(found)].category
  IN  IF ~IsStr(itemName) THEN "TypeError"
      ELSE Earliest(ListsFound(ItemCategoryKeywords, ToLowerCase(itemName.s)))

\* validateReceiptData
validateReceiptData(parsedData) ==
  /\ Truthy(Get(parsedData, kMerchant)) \/ Truthy(Get(parsedData, kVendor))
  /\ Truthy(Get(parsedData, kTotal))
  /\ Positive(ParseFloatOf(Get(parsedData, kTotal)))
  /\ Truthy(Get(parsedData, kDate))

\* a date in the form MM/DD/YYYY or YYYY-MM-DD with a month and a day that
\* every month has
WellFormedDate(s) ==
  LET InRange(ds, low, high) ==
        /\ \A i \in 1..Len(ds) : ds[i] \in Digits
        /\ DigitsToNat(ds) \in low..high
  IN  /\ Len(s) = 10
      /\ \/ /\ s[3] = "/" /\ s[6] = "/"
            /\ InRange(Slice(s, 1, 3), 1, 12) /\ InRange(Slice(s, 4, 6), 1, 28)
            /\ InRange(Slice(s, 7, 11), 1000, 9999)
         \/ /\ s[5] = "-" /\ s[8] = "-"
            /\ InRange(Slice(s, 1, 5), 1000, 9999) /\ InRange(Slice(s, 6, 8), 1, 12)
            /\ InRange(Slice(s, 9, 11), 1, 28)

(* Whether new Date(value || new Date()) is a valid date: the outcomes it can
   have.  A missing value gives the day of the run and a number a time; a
   text in one of the two forms above is parsed; what the engine makes of any
   other text is left to the implementation. *)
DateOutcomes(v) ==
  IF ~Truthy(v) \/ v.t \in {"num", "int"} THEN {"valid"}
  ELSE IF IsStr(v) /\ WellFormedDate(v.s) THEN {"valid"}
  ELSE {"valid", "invalid"}

\* a category in a record: the text of that name
CategoryName(category) == [t |-> "category", name |-> category]

\* the item of the record the handler of the Nova pipeline builds
RecordItemNova(receiptId, item, index, tieUp) ==
  LET Mapped(name, price, quantity) ==
        IF determineItemCategory(Or(name, Str(<<>>))) = "TypeError" THEN Thrown
        ELSE Obj(<<"i", "t", "e", "m", "I", "d">> :> Str(ToStr(receiptId) \o <<"-", "i", "t", "e", "m", "-">> \o NatToStr(index))
                 @@ kName :> Or(name, Str(ItemPrefix \o NatToStr(index)))
                 @@ kPrice :> NumberValue(price)
                 @@ <<"p", "r", "i", "c", "e", "F", "o", "r", "m", "a", "t", "t", "e", "d">> :> Or(Get(item, kPrice), Str(ZeroPrice))
                 @@ kQuantity :> NumberValue(quantity)
                 @@ <<"q", "u", "a", "n", "t", "i", "t", "y", "F", "o", "r", "m", "a", "t", "t", "e", "d">> :> Or(Get(item, kQuantity), Str(One))
                 @@ kLineTotal :> NumberValue(Times(price, quantity))
                 @@ <<"l", "i", "n", "e", "T", "o", "t", "a", "l", "F", "o", "r", "m", "a", "t", "t", "e", "d">> :>
                      Str(ToFixed2(Times(price, quantity), tieUp))
                 @@ <<"c", "a", "t", "e", "g", "o", "r", "y">> :> CategoryName(determineItemCategory(Or(name, Str(<<>>))))
                 @@ <<"o", "r", "d", "e", "r">> :> IntV(index))
  IN  IF ~CanRead(item) THEN Thrown
      ELSE Mapped(Or(Get(item, kName), Get(item, kDescription)),
                ParseFloatOf(Or(Get(item, kPrice), Str(<<"0">>))),
                ParseFloatOf(ParseInt(Or(Get(item, kQuantity), Str(One)))))

\* (value || []).map(f): a TypeError when the value is truthy and no array
ArrayOrEmpty(v) == IF ~Truthy(v) THEN Arr(<<>>) ELSE IF IsArray(v) THEN v ELSE Thrown

\* the record of the handler of the Nova pipeline, or Thrown
ReceiptRecordNova(receiptId, parsedData, dateOutcome, tieUp) ==
  LET Record(name, items, mapped) ==
        IF \/ dateOutcome = "invalid"
           \/ determineReceiptCategory(Or(name, Str(<<>>))) = "TypeError"
           \/ IsThrown(items) \/ IsThrown(mapped)
           \/ IsThrown(LowerCased(Or(name, Str(<<>>))))
        THEN Thrown
        ELSE Obj(<<"r", "e", "c", "e", "i", "p", "t", "I", "d">> :> receiptId
                 @@ kVendor :> Or(name, Str(Unknown))
                 @@ kMerchant :> Or(name, Str(Unknown))
                 @@ kDate :> Or(Get(parsedData, kDate), Str(TodayIso))
                 @@ kTotal :>
                      NumberValue(ParseFloatOf(Or(Get(parsedData, kTotal), Str(<<"0">>))))
                 @@ <<"t", "o", "t", "a", "l", "F", "o", "r", "m", "a", "t", "t", "e", "d">> :> Or(Get(parsedData, kTotal), Str(ZeroPrice))
                 @@ kSubtotal :>
                      NumberValue(ParseFloatOf(Or(Get(parsedData, kSubtotal), Str(<<"0">>))))
                 @@ <<"s", "u", "b", "t", "o", "t", "a", "l", "F", "o", "r", "m", "a", "t", "t", "e", "d">> :> Or(Get(parsedData, kSubtotal), Str(ZeroPrice))
                 @@ kTax :>
                      NumberValue(ParseFloatOf(Or(Get(parsedData, kTax), Str(<<"0">>))))
                 @@ <<"t", "a", "x", "F", "o", "r", "m", "a", "t", "t", "e", "d">> :> Or(Get(parsedData, kTax), Str(ZeroPrice))
                 @@ kItems :> mapped
                 @@ <<"i", "t", "e", "m", "C", "o", "u", "n", "t">> :> IntV(Len(items.a))
                 @@ kConfidence :>
                      Or(Get(Get(parsedData, kMetadata), kConfidence), IntV(8500))
                 @@ <<"c", "a", "t", "e", "g", "o", "r", "y">> :> CategoryName(determineReceiptCategory(Or(name, Str(<<>>))))
                 @@ <<"v", "e", "n", "d", "o", "r", "L", "o", "w", "e", "r">> :> LowerCased(Or(name, Str(<<>>)))
                 @@ <<"i", "s", "V", "a", "l", "i", "d">> :> Bool(validateReceiptData(parsedData)))
      Mapped(name, items) ==
        Record(name, items,
               IF IsThrown(items) THEN Thrown
               ELSE MapItems([i \in 1..Len(items.a) |->
                                RecordItemNova(receiptId, items.a[i], i, tieUp)]))
  IN  Mapped(Or(Get(parsedData, kMerchant), Get(parsedData, kVendor)),
             ArrayOrEmpty(Get(parsedData, kItems)))

\* the record of the handler of the Claude pipeline, or Thrown
ReceiptRecordClaude(receiptId, parsedData) ==
  LET Record(name) ==
        IF \/ determineCategory(name) = "TypeError"
           \/ IsThrown(LowerCased(Or(name, Str(<<>>))))
        THEN Thrown
        ELSE Obj(<<"r", "e", "c", "e", "i", "p", "t", "I", "d">> :> receiptId
                 @@ kVendor :> name
                 @@ kDate :> Get(parsedData, kDate)
                 @@ kTotal :> Get(parsedData, kTotal)
                 @@ kSubtotal :> Get(parsedData, kSubtotal)
                 @@ kTax :> Get(parsedData, kTax)
                 @@ kItems :> Or(Get(parsedData, kItems), Arr(<<>>))
                 @@ <<"i", "t", "e", "m", "C", "o", "u", "n", "t">> :> CountItems(Get(parsedData, kItems))
                 @@ kConfidence :>
                      Or(Get(Get(parsedData, kMetadata), kConfidence), IntV(0))
                 @@ kFieldsFound :>
                      Or(Get(Get(parsedData, kMetadata), kFieldsFound), IntV(0))
                 @@ kItemsFound :>
                      Or(Get(Get(parsedData, kMetadata), kItemsFound), IntV(0))
                 @@ <<"c", "a", "t", "e", "g", "o", "r", "y">> :> CategoryName(determineCategory(name))
                 @@ <<"v", "e", "n", "d", "o", "r", "L", "o", "w", "e", "r">> :> LowerCased(Or(name, Str(<<>>)))
                 @@ <<"t", "o", "t", "a", "l", "A", "m", "o", "u", "n", "t">> :>
                      NumberValue(ParseFloatOf(Or(Get(parsedData, kTotal), Str(<<"0">>)))))
  IN  Record(Or(Get(parsedData, kMerchant), Get(parsedData, kVendor)))

(***************************************************************************)
(* The status handlers: the answer to GET /status/{receiptId}, of the      *)
(* table and of the execution the Step Function reports                    *)
(***************************************************************************)
kSavedData == <<"s", "a", "v", "e", "d", "D", "a", "t", "a">>

kParsedData == <<"p", "a", "r", "s", "e", "d", "D", "a", "t", "a">>

\* the records of the table with the receiptId asked for
RecordsOf(table, receiptId) ==
  {record \in table : Get(record, <<"r", "e", "c", "e", "i", "p", "t", "I", "d">>) = receiptId}

(* What docClient.send gives: an item, none, or an error that the handler
   catches.  The Query of the Nova pipeline finds a record by its receiptId;
   the Get of the Claude pipeline needs the timestamp of the record as well,
   which the request may not hold. *)
LookupOutcomes(variant, table, receiptId) ==
  {"error"}
    \cup (IF RecordsOf(table, receiptId) # {} THEN {"found"} ELSE {"none"})
    \cup (IF variant = "claude" THEN {"none"} ELSE {})

\* the statuses DescribeExecution reports; "error" is a call that throws
ExecutionStatuses == {"RUNNING", "SUCCEEDED", "FAILED", "TIMED_OUT", "ABORTED"}

\* receiptData of the handler of the Claude pipeline
ReceiptDataClaude(item) ==
  Obj(kVendor :> Get(item, kVendor)
      @@ kDate :> Get(item, kDate)
      @@ kTotal :> Get(item, kTotal)
      @@ kSubtotal :> Get(item, kSubtotal)
      @@ kTax :> Get(item, kTax)
      @@ kItems :> Or(Get(item, kItems), Arr(<<>>)))

\* an item of receiptData of the handler of the Nova pipeline
ReceiptItemNova(dbItem) ==
  IF ~CanRead(dbItem) THEN Thrown
  ELSE Obj(kName :> Get(dbItem, kName)
           @@ kPrice :> Or(Get(dbItem, <<"p", "r", "i", "c", "e", "F", "o", "r", "m", "a", "t", "t", "e", "d">>), Get(dbItem, kPrice))
           @@ kQuantity :> Or(Get(dbItem, <<"q", "u", "a", "n", "t", "i", "t", "y", "F", "o", "r", "m", "a", "t", "t", "e", "d">>), Get(dbItem, kQuantity))
           @@ kLineTotal :> Or(Get(dbItem, <<"l", "i", "n", "e", "T", "o", "t", "a", "l", "F", "o", "r", "m", "a", "t", "t", "e", "d">>), Get(dbItem, kLineTotal)))

\* receiptData of the handler of the Nova pipeline, or Thrown
ReceiptDataNova(item) ==
  LET Data(items, mapped) ==
        IF IsThrown(items) \/ IsThrown(mapped) THEN Thrown
        ELSE Obj(kVendor :> Or(Get(item, kVendor), Get(item, kMerchant))
                 @@ kMerchant :> Or(Get(item, kVendor), Get(item, kMerchant))
                 @@ kDate :> Get(item, kDate)
                 @@ kTotal :> Or(Get(item, <<"t", "o", "t", "a", "l", "F", "o", "r", "m", "a", "t", "t", "e", "d">>), Get(item, kTotal))
                 @@ kSubtotal :> Or(Get(item, <<"s", "u", "b", "t", "o", "t", "a", "l", "F", "o", "r", "m", "a", "t", "t", "e", "d">>), Get(item, kSubtotal))
                 @@ kTax :> Or(Get(item, <<"t", "a", "x", "F", "o", "r", "m", "a", "t", "t", "e", "d">>), Get(item, kTax))
                 @@ kItems :> mapped
                 @@ <<"i", "t", "e", "m", "C", "o", "u", "n", "t">> :> Or(Get(item, <<"i", "t", "e", "m", "C", "o", "u", "n", "t">>), IntV(0))
                 @@ kConfidence :> Or(Get(item, kConfidence), IntV(8500))
                 @@ <<"c", "a", "t", "e", "g", "o", "r", "y">> :> Or(Get(item, <<"c", "a", "t", "e", "g", "o", "r", "y">>), CategoryName("Other")))
      Mapped(items) ==
        Data(items, IF IsThrown(items) THEN Thrown
                    ELSE MapItems([i \in 1..Len(items.a) |-> ReceiptItemNova(items.a[i])]))
  IN  Mapped(ArrayOrEmpty(Get(item, kItems)))

\* the answer for a record found in the table
FoundResponse(variant, item) ==
  LET Answer(data) ==
        IF IsThrown(data)
        THEN [statusCode |-> 500, success |-> FALSE, status |-> "", data |-> Undefined]
        ELSE [statusCode |-> 200, success |-> TRUE, status |-> "COMPLETED", data |-> data]
  IN  Answer(IF variant = "nova" THEN ReceiptDataNova(item) ELSE ReceiptDataClaude(item))

\* data of the parsedData of the output (Claude pipeline)
OutputData(output) ==
  LET Data(parsedData) ==
        IF ~Truthy(parsedData) THEN Null
        ELSE Obj(kVendor :> Or(Get(parsedData, kMerchant), Get(parsedData, kVendor))
                 @@ kDate :> Get(parsedData, kDate)
                 @@ kTotal :> Get(parsedData, kTotal)
                 @@ kSubtotal :> Get(parsedData, kSubtotal)
                 @@ kTax :> Get(parsedData, kTax)
                 @@ kItems :> Or(Get(parsedData, kItems), Arr(<<>>)))
  IN  Data(Get(output, kParsedData))

\* the answer of the handler of the Claude pipeline for an execution
ExecutionResponseClaude(execution) ==
  LET status ==
        CASE execution.status = "RUNNING" -> "PROCESSING"
          [] execution.status = "SUCCEEDED" -> "COMPLETED"
          [] execution.status \in {"FAILED", "TIMED_OUT", "ABORTED"} -> "FAILED"
          [] OTHER -> "PROCESSING"
  IN  [statusCode |-> 200, success |-> status # "FAILED", status |-> status,
       data |-> IF execution.status = "SUCCEEDED" /\ Truthy(execution.output)
                THEN OutputData(execution.output) ELSE Null]

\* the answer of the handler of the Nova pipeline for an execution
ExecutionResponseNova(execution) ==
  IF execution.status = "SUCCEEDED"
  THEN [statusCode |-> 200, success |-> TRUE, status |-> "COMPLETED",
        data |-> Or(Get(execution.output, kSavedData), Null)]
  ELSE IF execution.status = "FAILED"
  THEN [statusCode |-> 200, success |-> FALSE, status |-> "FAILED", data |-> Null]
  ELSE [statusCode |-> 200, success |-> TRUE, status |-> "PROCESSING", data |-> Null]

\* the answer when neither the table nor the execution tells
DefaultResponse(variant) ==
  [statusCode |-> 200, success |-> TRUE, status |-> "PROCESSING",
   data |-> IF variant = "nova" THEN Null ELSE Undefined]

\* exports.handler of the status function, for a GET
StatusResponse(variant, table, request, lookup, execution) ==
  IF ~Truthy(request.receiptId)
  THEN [statusCode |-> 400, success |-> FALSE, status |-> "", data |-> Undefined]
  ELSE IF lookup = "found"
  THEN FoundResponse(variant,
                     CHOOSE item \in RecordsOf(table, request.receiptId) : TRUE)
  ELSE IF request.executionArn /\ execution.status # "error"
  THEN IF variant = "nova" THEN ExecutionResponseNova(execution)
       ELSE ExecutionResponseClaude(execution)
  ELSE DefaultResponse(variant)

(***************************************************************************)
(* The inputs of the Bedrock stage: expense documents the OCR service may  *)
(* return and texts the model may answer with                              *)
(***************************************************************************)
AcmeFoods == <<"A", "c", "m", "e", " ", "F", "o", "o", "d", "s">>
ReceiptDay == <<"0", "1", "/", "1", "5", "/", "2", "0", "2", "4">>
DollarTotal == <<"$", "1", "2", ".", "5">>
NotAvailable == <<"N", "/", "A">>
Milk == <<"M", "I", "L", "K">>
Bread == <<"B", "R", "E", "A", "D">>
DollarPrice == <<"$", "3", ".", "5">>
Two == <<"2">>
Blurred == <<"x">>
AmountA == <<"6", ".", "4", "9">>
AmountB == <<"0", ".", "5", "2">>

\* the lines of a small printed receipt
SampleLines ==
  << <<"A", "C", "M", "E", " ", "M", "A", "R", "K", "E", "T">>,
     <<"0", "1", "/", "1", "5", "/", "2", "0", "2", "4">>,
     <<"M", "I", "L", "K", " ", "3", ".", "9", "9">>,
     <<"B", "R", "E", "A", "D", " ", "2", ".", "5", "0">>,
     <<"S", "U", "B", "T", "O", "T", "A", "L", " ", "6", ".", "4", "9">>,
     <<"T", "A", "X", " ", "0", ".", "5", "2">>,
     <<"T", "O", "T", "A", "L", " ", "7", ".", "0", "1">> >>

\* every field of one document is read with the same confidence
Field(type, text) == [type |-> type, text |-> text, conf |-> 90]

\* the fields the service detected; an undetected field has no text
SummaryChoices ==
  { <<Field(VENDOR_NAME, vendor), Field(INVOICE_RECEIPT_DATE, date),
      Field(TOTAL, total), Field(SUBTOTAL, rest[1]), Field(TAX, rest[2])>> :
      vendor \in {<<>>, AcmeFoods}, date \in {<<>>, ReceiptDay},
      total \in {<<>>, DollarTotal, NotAvailable},
      rest \in {<<<<>>, <<>>>>, <<AmountA, AmountB>>} }

LineItemChoices ==
  { <<Field(ITEM, Milk), Field(PRICE, DollarPrice), Field(QUANTITY, Two)>>,
    <<Field(PRICE, DollarPrice)>>,
    <<Field(ITEM, Bread), Field(QUANTITY, Blurred)>> }

\* the most line items of a document
MaxLineItems == 1

\* a document with text, or a blank image with nothing to read
Docs ==
  [fields : SummaryChoices,
   items : UNION {[1..n -> LineItemChoices] : n \in 0..MaxLineItems},
   lines : {SampleLines}]
    \cup [fields : {f \in SummaryChoices : \A i \in 1..5 : f[i].text = <<>>},
          items : {<<>>}, lines : {<<>>}]

\* documents enough to reach every branch of the fallback
FewDocs ==
  { doc \in Docs :
      /\ doc.fields[4].text = <<>>
      /\ doc.fields[1].text = <<>> <=> doc.fields[2].text = <<>>
      /\ doc.fields[1].text = <<>> <=> doc.fields[3].text = <<>>
      /\ doc.fields[3].text # NotAvailable
      /\ doc.items = <<>> <=> doc.fields[1].text = <<>>
      /\ \A i \in 1..Len(doc.items) : Len(doc.items[i]) = 3 }

JsonEmpty == <<"{", "}">>
JsonFull ==
  <<"{", "\"", "m", "e", "r", "c", "h", "a", "n", "t", "\"", ":", "\"", "A",
    "C", "M", "E", "\"", ",", "\"", "d", "a", "t", "e", "\"", ":", "\"",
    "0", "1", "/", "1", "5", "/", "2", "0", "2", "4", "\"", ",", "\"", "t",
    "o", "t", "a", "l", "\"", ":", "\"", "7", ".", "0", "1", "\"", ",",
    "\"", "s", "u", "b", "t", "o", "t", "a", "l", "\"", ":", "\"", "6",
    ".", "4", "9", "\"", ",", "\"", "t", "a", "x", "\"", ":", "\"", "0",
    ".", "5", "2", "\"", ",", "\"", "i", "t", "e", "m", "s", "\"", ":",
    "[", "{", "\"", "n", "a", "m", "e", "\"", ":", "\"", "M", "I", "L",
    "K", "\"", ",", "\"", "p", "r", "i", "c", "e", "\"", ":", "\"", "3",
    ".", "9", "9", "\"", ",", "\"", "q", "u", "a", "n", "t", "i", "t", "y",
    "\"", ":", "2", ",", "\"", "l", "i", "n", "e", "T", "o", "t", "a", "l",
    "\"", ":", "\"", "7", ".", "9", "8", "\"", "}", "]", "}">>
JsonNumbers ==
  <<"{", "\"", "m", "e", "r", "c", "h", "a", "n", "t", "\"", ":", "\"", "A",
    "C", "M", "E", "\"", ",", "\"", "t", "o", "t", "a", "l", "\"", ":",
    "7", ".", "5", ",", "\"", "i", "t", "e", "m", "s", "\"", ":", "[", "{",
    "\"", "n", "a", "m", "e", "\"", ":", "\"", "T", "E", "A", "\"", ",",
    "\"", "p", "r", "i", "c", "e", "\"", ":", "3", ".", "5", ",", "\"",
    "q", "u", "a", "n", "t", "i", "t", "y", "\"", ":", "0", "}", "]", "}">>
JsonNegative ==
  <<"{", "\"", "t", "o", "t", "a", "l", "\"", ":", "\"", "1", "\"", ",",
    "\"", "i", "t", "e", "m", "s", "\"", ":", "[", "{", "\"", "n", "a",
    "m", "e", "\"", ":", "\"", "T", "E", "A", "\"", ",", "\"", "p", "r",
    "i", "c", "e", "\"", ":", "\"", "1", "\"", ",", "\"", "q", "u", "a",
    "n", "t", "i", "t", "y", "\"", ":", "-", "1", "}", "]", "}">>
JsonNullItem ==
  <<"{", "\"", "t", "o", "t", "a", "l", "\"", ":", "\"", "1", "\"", ",",
    "\"", "i", "t", "e", "m", "s", "\"", ":", "[", "n", "u", "l", "l", "]",
    "}">>
JsonItemsText ==
  <<"{", "\"", "t", "o", "t", "a", "l", "\"", ":", "\"", "1", "\"", ",",
    "\"", "i", "t", "e", "m", "s", "\"", ":", "\"", "n", "o", "n", "e",
    "\"", "}">>
JsonBlank ==
  <<"{", "\"", "m", "e", "r", "c", "h", "a", "n", "t", "\"", ":", "\"", "\"",
    ",", "\"", "d", "a", "t", "e", "\"", ":", "\"", "\"", ",", "\"", "t",
    "o", "t", "a", "l", "\"", ":", "\"", "\"", ",", "\"", "i", "t", "e",
    "m", "s", "\"", ":", "[", "{", "\"", "p", "r", "i", "c", "e", "\"",
    ":", "\"", "2", " ", "f", "o", "r", " ", "5", ".", "0", "0", "\"", "}",
    "]", "}">>
JsonMessy ==
  <<"{", "\"", "t", "o", "t", "a", "l", "\"", ":", "\"", "$", "1", ",", "2",
    "3", "4", ".", "5", "\"", ",", "\"", "s", "u", "b", "t", "o", "t", "a",
    "l", "\"", ":", "\"", "N", "/", "A", "\"", ",", "\"", "t", "a", "x",
    "\"", ":", "\"", "0", ".", "5", "2", "\"", ",", "\"", "i", "t", "e",
    "m", "s", "\"", ":", "[", "]", "}">>
JsonBraceInside ==
  <<"{", "\"", "m", "e", "r", "c", "h", "a", "n", "t", "\"", ":", "\"", "A",
    "}", "\"", ",", "\"", "i", "t", "e", "m", "s", "\"", ":", "[", "]", "}">>

\* texts that are one JSON object
ModelJsons ==
  {JsonEmpty, JsonFull, JsonNumbers, JsonNegative, JsonNullItem, JsonItemsText, JsonBlank, JsonMessy, JsonBraceInside}

BadUnquoted == <<"{", "t", "o", "t", "a", "l", ":", " ", "7", "}">>
BadMissing == <<"{", "\"", "t", "o", "t", "a", "l", "\"", ":", "}">>
BadTrailing ==
  <<"{", "\"", "t", "o", "t", "a", "l", "\"", ":", "\"", "1", "\"", ",", "}">>
BadOpen == <<"{", "\"", "t", "o", "t", "a", "l", "\"", ":", "\"", "1", "\"">>

\* texts with a brace that are not JSON
BadJsons == {BadUnquoted, BadMissing, BadTrailing, BadOpen}

ProseBefore ==
  <<"H", "e", "r", "e", " ", "i", "s", " ", "t", "h", "e", " ", "r", "e",
    "c", "e", "i", "p", "t", ":", " ">>
ProseBraceBefore ==
  <<"H", "e", "r", "e", " ", "{", "i", "s", "}", " ", "i", "t", ":", " ">>
ProseAfter == <<" ", "D", "o", "n", "e", ".">>
ProseBraceAfter == <<" ", ":", "-", "}">>
ProseSecondObject ==
  <<" ", "o", "r", " ", "{", "\"", "t", "o", "t", "a", "l", "\"", ":", "\"",
    "8", ".", "0", "0", "\"", "}">>
NoJsonText ==
  <<"T", "o", "t", "a", "l", " ", "i", "s", " ", "7", ".", "0", "1">>

\* a text of the model: prose, then possibly an object's text, then prose;
\* every object's text comes bare, and some come inside every prose
ModelTexts ==
  [pre : {<<>>, ProseBefore, ProseBraceBefore},
   json : {JsonFull, JsonBraceInside, BadUnquoted, <<>>},
   post : {<<>>, ProseAfter, ProseBraceAfter, ProseSecondObject}]
    \cup [pre : {<<>>}, json : ModelJsons \cup BadJsons, post : {<<>>}]
    \cup {[pre |-> NoJsonText, json |-> <<>>, post |-> <<>>]}

FewTexts ==
  { [pre |-> NoJsonText, json |-> <<>>, post |-> <<>>],
    [pre |-> ProseBefore, json |-> JsonFull, post |-> <<>>],
    [pre |-> <<>>, json |-> BadUnquoted, post |-> <<>>] }

TextOf(m) == m.pre \o m.json \o m.post

(***************************************************************************)
(* The price normaliser applied once and again                             *)
(***************************************************************************)
\* the longest price text enumerated
MaxPriceLen == 4

PriceChars == {"$", ",", " ", ".", "0", "5", "9", "a"}

Strings(S, n) == UNION {[1..k -> S] : k \in 0..n}

\* 10^21, the least number toFixed writes with an exponent
TenToThe21 == <<"1">> \o [i \in 1..21 |-> "0"]

PriceExamples ==
  { <<"2", " ", "f", "o", "r", " ", "5", ".", "0", "0">>,
    <<"$", "1", ",", "2", "3", "4", ".", "5">>,
    <<"a", "b", "c">>,
    <<"1", "2", ".", "3", "4", "5", "6">>,
    TenToThe21 }

PriceInputs ==
  {Null, Undefined, Num(<<"0">>), Num(<<"5">>), Num(<<"1", "2", ".", "5">>)}
    \cup {Str(s) : s \in Strings(PriceChars, MaxPriceLen) \cup PriceExamples}

Variants == {"nova", "claude"}

VARIABLES
  pStep,     \* "start", "once" (cleanPrice applied), "twice" (applied to its result)
  pVariant,  \* which stage's cleanPrice
  pInput,    \* the value passed to cleanPrice
  pOnce,     \* cleanPrice(pInput)
  pTwice,    \* cleanPrice(cleanPrice(pInput))
  bPc,       \* where the Bedrock handler is: "start", "download", "invoke",
             \* "parse", "enhance", "done"
  bVariant,  \* which handler: "nova" or "claude"
  bEvent,    \* the event: receiptId, textractResult, hasS3Location
  bModel,    \* the text the model answers with: [pre, json, post]
  bImage,    \* whether the image was downloaded
  bResponse, \* the text read from the response body, undefined before
  bParsed,   \* parsedData before enhanceParsedData
  bFellBack, \* whether parsedData came from createFallbackData
  bError,    \* the message of the error thrown inside the outer try, "" if none
  bResult,   \* what the handler returned: [status, parsedData, error, raised]
  rPc,       \* where the heuristic parser is: "start", "vendor", "date",
             \* "amounts", "items", "scan", "fallback", "return", "done"
  rParser,   \* which parser: "intelligent" or "simple"
  rText,     \* the text to parse
  rLines,    \* its lines
  rVendor,   \* the vendor found and its confidence in tenths
  rFound,    \* the date, the amounts and the items found
  rResult,   \* the record returned, undefined before
  dPc,       \* where the DynamoDB handler is: "wait" (for the Bedrock stage's
             \* result), "done"
  dTable,    \* the receipt records of the table
  dResult,   \* what the DynamoDB handler returned: [status, savedData, error]
  cPc,       \* "start", "done" (the categorizer applied)
  cFunction, \* which categorizer
  cName,     \* the value passed to it
  cCategory, \* what it returned
  sPc,       \* "start", "done" (the status handler has answered)
  sVariant,  \* which status handler: that of the "nova" or "claude" pipeline
  sRequest,  \* the request: receiptId, whether executionArn is given
  sExecution,\* the execution DescribeExecution reports: [status, output]
  sResponse, \* what the handler returned: [statusCode, success, status, data]
  fPc,       \* where the page is: "start", "posting", "waiting" (a poll is
             \* scheduled), "polling", "shown", "stopped", "rejected"
  fAttempts, \* attempts of pollForResults
  fFetches,  \* how often the status endpoint was fetched
  fStatus,   \* the status of the last response polled, "" before
  fView      \* what the output shows: "progress", "receipt", "error"

priceVars == <<pStep, pVariant, pInput, pOnce, pTwice>>

bedrockVars ==
  <<bPc, bVariant, bEvent, bModel, bImage, bResponse, bParsed, bFellBack, bError,
    bResult>>

parserVars == <<rPc, rParser, rText, rLines, rVendor, rFound, rResult>>

dynamoVars == <<dPc, dTable, dResult>>

categoryVars == <<cPc, cFunction, cName, cCategory>>

statusVars == <<sPc, sVariant, sRequest, sExecution, sResponse>>

pollVars == <<fPc, fAttempts, fFetches, fStatus, fView>>

clientVars == <<statusVars, pollVars>>

vars ==
  <<priceVars, bedrockVars, dynamoVars, parserVars, categoryVars, statusVars, pollVars>>

\* the variables of a part of the model that a specification leaves alone
IdlePrice ==
  pStep = "idle" /\ pVariant = "" /\ pInput = <<>> /\ pOnce = <<>> /\ pTwice = <<>>

IdleBedrock ==
  /\ bPc = "idle" /\ bVariant = "" /\ bEvent = <<>> /\ bModel = <<>>
  /\ bImage = FALSE /\ bResponse = <<>> /\ bParsed = <<>> /\ bFellBack = FALSE
  /\ bError = "" /\ bResult = <<>>

IdleParser ==
  /\ rPc = "idle" /\ rParser = "" /\ rText = <<>> /\ rLines = <<>>
  /\ rVendor = <<>> /\ rFound = <<>> /\ rResult = <<>>

IdleDynamo == dPc = "idle" /\ dTable = {} /\ dResult = <<>>

IdleCategory == cPc = "idle" /\ cFunction = "" /\ cName = <<>> /\ cCategory = ""

IdleStatus ==
  /\ sPc = "idle" /\ sVariant = "" /\ sRequest = <<>> /\ sExecution = <<>>
  /\ sResponse = <<>>

IdlePoll ==
  fPc = "idle" /\ fAttempts = 0 /\ fFetches = 0 /\ fStatus = "" /\ fView = ""

InitPrice ==
  /\ IdleBedrock
  /\ IdleDynamo
  /\ IdleParser
  /\ IdleCategory
  /\ IdleStatus
  /\ IdlePoll
  /\ pStep = "start"
  /\ pVariant \in Variants
  /\ pInput \in PriceInputs
  /\ pOnce = <<>>
  /\ pTwice = <<>>

NormalizeOnce ==
  /\ pStep = "start"
  /\ \E tieUp \in BOOLEAN : pOnce' = cleanPrice(pVariant, pInput, tieUp)
  /\ pStep' = "once"
  /\ UNCHANGED <<pVariant, pInput, pTwice>>
  /\ UNCHANGED <<bedrockVars, dynamoVars, parserVars, categoryVars, clientVars>>

NormalizeAgain ==
  /\ pStep = "once"
  /\ pOnce # TypeError
  /\ \E tieUp \in BOOLEAN : pTwice' = cleanPrice(pVariant, Str(pOnce), tieUp)
  /\ pStep' = "twice"
  /\ UNCHANGED <<pVariant, pInput, pOnce>>
  /\ UNCHANGED <<bedrockVars, dynamoVars, parserVars, categoryVars, clientVars>>

NextPrice == NormalizeOnce \/ NormalizeAgain

SpecPrice == InitPrice /\ [][NextPrice]_vars

(***************************************************************************)
(* The Bedrock handler, one action per step of its body                    *)
(***************************************************************************)
ReceiptId == <<"r", "1">>

\* a document paired with a text; the two families keep the product small
BedrockInputs == (FewDocs \X ModelTexts) \cup (Docs \X FewTexts)

\* the event with a missing receiptId or without the OCR stage's result
OddEvents == {"noReceiptId", "noTextractResult", "noS3Location"}

Event(variant, doc, shape) ==
  [receiptId |-> IF shape = "noReceiptId" THEN Undefined ELSE Str(ReceiptId),
   textractResult |-> IF shape = "noTextractResult" THEN Undefined
                      ELSE TextractResult(variant, doc),
   hasS3Location |-> shape # "noS3Location"]

NoResult == [status |-> "", parsedData |-> Undefined, error |-> "", raised |-> FALSE]

NoSave == [status |-> "", savedData |-> Undefined, error |-> ""]

InitBedrock ==
  /\ IdlePrice
  /\ IdleParser
  /\ IdleCategory
  /\ IdlePoll
  /\ bPc = "start"
  /\ bVariant \in Variants
  /\ sPc = "start"
  /\ sVariant = bVariant
  /\ sRequest = <<>>
  /\ sExecution = <<>>
  /\ sResponse = <<>>
  /\ \E in \in BedrockInputs, shape \in OddEvents \cup {"whole"} :
       /\ shape \in OddEvents => in \in FewDocs \X FewTexts
       /\ bEvent = Event(bVariant, in[1], shape)
       /\ bModel = in[2]
  /\ bImage = FALSE
  /\ bResponse = Undefined
  /\ bParsed = Undefined
  /\ bFellBack = FALSE
  /\ bError = ""
  /\ bResult = NoResult
  /\ dPc = "wait"
  /\ dTable = {}
  /\ dResult = NoSave

\* an outer catch that throws the error again
CatchResultRethrown(variant, event, message) ==
  [status |-> "", parsedData |-> Undefined, error |-> message, raised |-> TRUE]

\* the outer catch: a result that carries the fallback record and the error
CatchResult(variant, event, message) ==
  LET tr == event.textractResult
      fallbackData ==
        IF variant = "nova" /\ ~Truthy(tr)
        THEN Obj(kMerchant :> Str(Unknown) @@ kTotal :> Str(ZeroPrice)
                 @@ kItems :> Arr(<<>>) @@ kDate :> Str(TodayIso))
        ELSE createFallbackData(variant, tr)
  IN  IF IsThrown(fallbackData)
      THEN [status |-> "", parsedData |-> Undefined, error |-> "TypeError",
            raised |-> TRUE]
      ELSE [status |-> IF variant = "nova" THEN "BEDROCK_FAILED"
                       ELSE "BEDROCK_FALLBACK",
            parsedData |-> fallbackData, error |-> message, raised |-> FALSE]

\* a throw inside the outer try ends the handler in its catch
Caught(message) ==
  /\ bError' = message
  /\ bResult' = CatchResult(bVariant, bEvent, message)
  /\ bPc' = "done"

MissingInput(variant, event) ==
  IF variant = "nova"
  THEN ~Truthy(event.receiptId) \/ ~Truthy(event.textractResult)
  ELSE ~Truthy(event.textractResult) \/ ~Truthy(Get(event.textractResult, kRawText))

Validate ==
  /\ bPc = "start"
  /\ IF MissingInput(bVariant, bEvent)
     THEN Caught("missing input")
     ELSE /\ bPc' = IF bVariant = "nova" /\ bEvent.hasS3Location
                    THEN "download" ELSE "invoke"
          /\ UNCHANGED <<bResult, bError>>
  /\ UNCHANGED <<bVariant, bEvent, bModel, bImage, bResponse, bParsed, bFellBack>>
  /\ UNCHANGED <<dynamoVars, priceVars, parserVars, categoryVars, clientVars>>

\* the Nova handler fetches the image; a failed download is logged and the
\* handler goes on with the text alone
DownloadImage ==
  /\ bPc = "download"
  /\ \E downloaded \in BOOLEAN : bImage' = downloaded
  /\ bPc' = "invoke"
  /\ UNCHANGED <<bVariant, bEvent, bModel, bResponse, bParsed, bFellBack, bError,
                 bResult>>
  /\ UNCHANGED <<dynamoVars, priceVars, parserVars, categoryVars, clientVars>>

\* bedrock.send: the model answers with the text, or answers with a body
\* that holds no text, or the call throws
InvokeModel ==
  /\ bPc = "invoke"
  /\ \E outcome \in {"text", "no text", "throws"} :
       IF outcome = "throws"
       THEN /\ Caught("model call failed")
            /\ UNCHANGED bResponse
       ELSE IF outcome = "no text" /\ bVariant = "nova"
       THEN /\ Caught("TypeError")
            /\ UNCHANGED bResponse
       ELSE /\ bResponse' = IF outcome = "text" THEN Str(TextOf(bModel))
                            ELSE Undefined
            /\ bPc' = "parse"
            /\ UNCHANGED <<bResult, bError>>
  /\ UNCHANGED <<bVariant, bEvent, bModel, bImage, bParsed, bFellBack>>
  /\ UNCHANGED <<dynamoVars, priceVars, parserVars, categoryVars, clientVars>>

\* the inner try: text.match(/\{[\s\S]*\}/), then JSON.parse of the match
ExtractJson(response) ==
  LET jsonMatch == Match(BraceDelimited, response.s)
  IN  IF ~IsStr(response) \/ ~jsonMatch.found THEN JsonFail
      ELSE JsonParse(Matched(response.s, jsonMatch))

\* the parse without the inner try: a text that is not JSON ends the handler
\* in its outer catch
ParseResponseUnguarded ==
  /\ bPc = "parse"
  /\ LET extracted == ExtractJson(bResponse)
     IN  IF extracted.ok
         THEN /\ bParsed' = extracted.v
              /\ bFellBack' = FALSE
              /\ bPc' = "enhance"
              /\ UNCHANGED <<bResult, bError>>
         ELSE /\ Caught("No JSON found")
              /\ UNCHANGED <<bParsed, bFellBack>>
  /\ UNCHANGED <<bVariant, bEvent, bModel, bImage, bResponse>>
  /\ UNCHANGED <<dynamoVars, priceVars, parserVars, categoryVars, clientVars>>

ParseResponse ==
  /\ bPc = "parse"
  /\ LET extracted == ExtractJson(bResponse)
         fallbackData == createFallbackData(bVariant, bEvent.textractResult)
     IN  IF extracted.ok
         THEN /\ bParsed' = extracted.v
              /\ bFellBack' = FALSE
              /\ bPc' = "enhance"
              /\ UNCHANGED <<bResult, bError>>
         ELSE IF IsThrown(fallbackData)
         THEN /\ Caught("TypeError")
              /\ UNCHANGED <<bParsed, bFellBack>>
         ELSE /\ bParsed' = fallbackData
              /\ bFellBack' = TRUE
              /\ bPc' = "enhance"
              /\ UNCHANGED <<bResult, bError>>
  /\ UNCHANGED <<bVariant, bEvent, bModel, bImage, bResponse>>
  /\ UNCHANGED <<dynamoVars, priceVars, parserVars, categoryVars, clientVars>>

\* enhanceParsedData, the confidence, and the result the handler returns
Completed(variant, enhanced, textractResult) ==
  [status |-> "BEDROCK_COMPLETED",
   parsedData |->
     IF variant = "nova"
     THEN Put(enhanced, kMetadata,
              Put(Get(enhanced, kMetadata), kConfidence,
                  IntV(CalculateOverallConfidenceNova(enhanced, textractResult))))
     ELSE enhanced,
   error |-> "", raised |-> FALSE]

EnhanceAndReturn ==
  /\ bPc = "enhance"
  /\ \E tieUp \in BOOLEAN :
       LET enhanced == enhanceParsedData(bVariant, bParsed, bEvent.textractResult,
                                         tieUp)
       IN  IF IsThrown(enhanced) \/ ~IsStr(bResponse)
           THEN Caught("TypeError")
           ELSE /\ bResult' = Completed(bVariant, enhanced, bEvent.textractResult)
                /\ UNCHANGED bError
                /\ bPc' = "done"
  /\ UNCHANGED <<bVariant, bEvent, bModel, bImage, bResponse, bParsed, bFellBack>>
  /\ UNCHANGED <<dynamoVars, priceVars, parserVars, categoryVars, clientVars>>

(***************************************************************************)
(* The DynamoDB handler, which the Step Function runs on the object the    *)
(* Bedrock handler returned                                                 *)
(***************************************************************************)
\* the receiptId of the object the Bedrock handler returns
ReturnedReceiptId(variant, event, status) ==
  IF variant = "nova" /\ status = "BEDROCK_FAILED"
  THEN Or(event.receiptId, Str(<<"u", "n", "k", "n", "o", "w", "n">>))
  ELSE event.receiptId

\* the record of the handler of the same pipeline
ReceiptRecord(variant, receiptId, parsedData, dateOutcome, tieUp) ==
  IF variant = "nova"
  THEN ReceiptRecordNova(receiptId, parsedData, dateOutcome, tieUp)
  ELSE ReceiptRecordClaude(receiptId, parsedData)

\* the summary of a stored record the handler returns
SavedData(variant, record) ==
  Obj(kVendor :> Get(record, kVendor)
      @@ kTotal :> Get(record, IF variant = "nova" THEN <<"t", "o", "t", "a", "l", "F", "o", "r", "m", "a", "t", "t", "e", "d">> ELSE kTotal)
      @@ <<"i", "t", "e", "m", "C", "o", "u", "n", "t">> :> Get(record, <<"i", "t", "e", "m", "C", "o", "u", "n", "t">>)
      @@ kConfidence :> Get(record, kConfidence)
      @@ <<"c", "a", "t", "e", "g", "o", "r", "y">> :> Get(record, <<"c", "a", "t", "e", "g", "o", "r", "y">>))

\* a put with the condition attribute_not_exists(receiptId)
Stored(table, record) ==
  \A other \in table : Get(other, <<"r", "e", "c", "e", "i", "p", "t", "I", "d">>) # Get(record, <<"r", "e", "c", "e", "i", "p", "t", "I", "d">>)

SaveReceipt ==
  /\ bPc = "done"
  /\ ~bResult.raised
  /\ dPc = "wait"
  /\ \E dateOutcome \in DateOutcomes(Get(bResult.parsedData, kDate)),
        tieUp \in BOOLEAN, sent \in BOOLEAN :
       LET PutItem(record) ==
             IF IsThrown(record)
             THEN /\ dResult' = [status |-> "DYNAMODB_FAILED", savedData |-> Undefined,
                                 error |-> "TypeError"]
                  /\ dTable' = dTable
             ELSE IF ~sent \/ ~Stored(dTable, record)
             THEN /\ dResult' = [status |-> "DYNAMODB_FAILED", savedData |-> Undefined,
                                 error |-> "send"]
                  /\ dTable' = dTable
             ELSE /\ dResult' = [status |-> "DYNAMODB_COMPLETED",
                                 savedData |-> SavedData(bVariant, record),
                                 error |-> ""]
                  /\ dTable' = dTable \cup {record}
           Save(receiptId, parsedData) ==
             IF ~Truthy(receiptId) \/ ~Truthy(parsedData)
             THEN /\ dResult' = [status |-> "DYNAMODB_FAILED", savedData |-> Undefined,
                                 error |-> "missing input"]
                  /\ dTable' = dTable
             ELSE PutItem(ReceiptRecord(bVariant, receiptId, parsedData, dateOutcome, tieUp))
       IN  Save(ReturnedReceiptId(bVariant, bEvent, bResult.status), bResult.parsedData)
  /\ dPc' = "done"
  /\ UNCHANGED <<bedrockVars, priceVars, parserVars, categoryVars, clientVars>>

(***************************************************************************)
(* The status endpoint asked about the execution of the workflow           *)
(***************************************************************************)
\* what the DynamoDB handler returned, as the output of the execution
ExecutionOutput(variant, receiptId, result, parsedData) ==
  IF result.status = "DYNAMODB_COMPLETED"
  THEN Obj(<<"r", "e", "c", "e", "i", "p", "t", "I", "d">> :> receiptId
           @@ <<"s", "t", "a", "t", "u", "s">> :> Str(<<"D", "Y", "N", "A", "M", "O", "D", "B", "_", "C", "O", "M", "P", "L", "E", "T", "E", "D">>)
           @@ kSavedData :> result.savedData)
  ELSE IF variant = "nova"
  THEN Obj(<<"r", "e", "c", "e", "i", "p", "t", "I", "d">> :> Or(receiptId, Str(<<"u", "n", "k", "n", "o", "w", "n">>))
           @@ <<"s", "t", "a", "t", "u", "s">> :> Str(<<"D", "Y", "N", "A", "M", "O", "D", "B", "_", "F", "A", "I", "L", "E", "D">>))
  ELSE Obj(<<"r", "e", "c", "e", "i", "p", "t", "I", "d">> :> receiptId
           @@ <<"s", "t", "a", "t", "u", "s">> :> Str(<<"D", "Y", "N", "A", "M", "O", "D", "B", "_", "F", "A", "I", "L", "E", "D">>)
           @@ kParsedData :> parsedData)

(* The execution of the three tasks in a row: it fails when a handler
   throws, it succeeds when the last handler has returned, whatever status
   its result carries. *)
Execution ==
  IF bPc = "done" /\ bResult.raised
  THEN [status |-> "FAILED", output |-> Undefined]
  ELSE IF dPc = "done"
  THEN [status |-> "SUCCEEDED",
        output |-> ExecutionOutput(bVariant,
                                   ReturnedReceiptId(bVariant, bEvent, bResult.status),
                                   dResult, bResult.parsedData)]
  ELSE [status |-> "RUNNING", output |-> Undefined]

NotDescribed == [status |-> "error", output |-> Undefined]

\* the handler answers a request about the execution it is given
Answer(request, execution) ==
  /\ sPc = "start"
  /\ \E lookup \in LookupOutcomes(sVariant, dTable, request.receiptId) :
       sResponse' = StatusResponse(sVariant, dTable, request, lookup, execution)
  /\ sRequest' = request
  /\ sExecution' = execution
  /\ sPc' = "done"
  /\ UNCHANGED sVariant

(* The page asks for the status of its receipt, at any time, once, with the
   executionArn it was given; the answers to other requests are those of
   AnswerStatus below. *)
GetStatus ==
  /\ Answer([receiptId |-> Str(ReceiptId), executionArn |-> TRUE], Execution)
  /\ UNCHANGED <<bedrockVars, dynamoVars, priceVars, parserVars, categoryVars, pollVars>>

NextBedrock ==
  \/ Validate
  \/ DownloadImage
  \/ InvokeModel
  \/ ParseResponse
  \/ EnhanceAndReturn
  \/ SaveReceipt
  \/ GetStatus

SpecBedrock == InitBedrock /\ [][NextBedrock]_vars

(***************************************************************************)
(* The status handler asked about any receipt and any execution            *)
(***************************************************************************)
OtherReceiptId == <<"r", "2">>

\* the parsed record of a small receipt
StoredParsedData ==
  Obj(kMerchant :> Str(AcmeFoods)
      @@ kDate :> Str(ReceiptDay)
      @@ kTotal :> Str(<<"7", ".", "0", "1">>)
      @@ kItems :> Arr(<<Obj(kName :> Str(Milk) @@ kPrice :> Str(<<"3", ".", "5", "0">>)
                             @@ kQuantity :> Str(Two))>>))

\* the tables: empty, or with the record of one receipt
StatusTables(variant) ==
  {{}} \cup {{ReceiptRecord(variant, Str(receiptId), StoredParsedData, "valid", TRUE)} :
               receiptId \in {ReceiptId, OtherReceiptId}}

\* the executions DescribeExecution can report, and the call that throws
StatusExecutions(variant) ==
  [status : ExecutionStatuses \ {"SUCCEEDED"}, output : {Undefined}]
    \cup {NotDescribed}
    \cup { [status |-> "SUCCEEDED",
            output |-> ExecutionOutput(variant, Str(ReceiptId),
                         [status |-> status, savedData |-> Obj(kVendor :> Str(AcmeFoods)),
                          error |-> ""],
                         StoredParsedData)] :
             status \in {"DYNAMODB_COMPLETED", "DYNAMODB_FAILED"} }
    \cup {[status |-> "SUCCEEDED", output |-> Undefined]}

StatusRequests ==
  [receiptId : {Str(ReceiptId), Undefined}, executionArn : BOOLEAN]

InitStatus ==
  /\ IdlePrice
  /\ IdleBedrock
  /\ IdleParser
  /\ IdleCategory
  /\ IdlePoll
  /\ dPc = "idle"
  /\ dResult = <<>>
  /\ sPc = "start"
  /\ sVariant \in Variants
  /\ dTable \in StatusTables(sVariant)
  /\ sRequest \in StatusRequests
  /\ sExecution \in StatusExecutions(sVariant)
  /\ sResponse = <<>>

AnswerStatus ==
  /\ Answer(sRequest, sExecution)
  /\ UNCHANGED <<bedrockVars, dynamoVars, priceVars, parserVars, categoryVars, pollVars>>

NextStatus == AnswerStatus

SpecStatus == InitStatus /\ [][NextStatus]_vars

(***************************************************************************)
(* The heuristic parsers, one action per pass                              *)
(***************************************************************************)
\* the lines a text is made of
LinePool ==
  { <<"A", "C", "M", "E", " ", "M", "A", "R", "K", "E", "T">>,
    <<"0", "1", "/", "1", "5", "/", "2", "0", "2", "4">>,
    <<"M", "I", "L", "K", " ", "3", ".", "9", "9">>,
    <<"S", "U", "B", "T", "O", "T", "A", "L", " ", "6", ".", "4", "9">>,
    <<"T", "O", "T", "A", "L", " ", "7", ".", "0", "1">>,
    <<"0", " ", "x", " ", "T", "E", "A", " ", "1", ".", "0", "0">>,
    <<"C", "O", "F", "F", "E", "E">>,
    <<"$", "4", ".", "2", "5">>,
    <<"W", "a", "l", "m", "a", "r", "t">>,
    <<"1", "-", "5", "-", "2", "4">>,
    <<"T", "A", "X", " ", "0", ".", "5", "2">>,
    <<" ">> }

\* the most lines of a text, the printed receipt apart
MaxLines == 2

SampleText == JoinLines(SampleLines, 1)

\* a line whose name has 40 characters, and one whose name has 41
LongNameTexts ==
  {[i \in 1..n |-> "A"] \o <<" ", "1", ".", "0", "0">> : n \in {40, 41}}

\* the lines of the texts of up to MaxLines lines
FewLines ==
  { <<"A", "C", "M", "E", " ", "M", "A", "R", "K", "E", "T">>,
    <<"M", "I", "L", "K", " ", "3", ".", "9", "9">>,
    <<"S", "U", "B", "T", "O", "T", "A", "L", " ", "6", ".", "4", "9">>,
    <<"T", "O", "T", "A", "L", " ", "7", ".", "0", "1">>,
    <<"C", "O", "F", "F", "E", "E">>,
    <<"T", "A", "X", " ", "0", ".", "5", "2">> }

\* every line of the pool, and every pair of them
PoolTexts ==
  LinePool \cup {first \o <<"\n">> \o second : first \in LinePool, second \in LinePool}

ParserTexts ==
  {JoinLines(lines, 1) : lines \in UNION {[1..n -> FewLines] : n \in 0..MaxLines}}
    \cup PoolTexts \cup {SampleText} \cup LongNameTexts

Parsers == {"intelligent", "simple"}

InitParser ==
  /\ IdlePrice
  /\ IdleBedrock
  /\ IdleDynamo
  /\ IdleCategory
  /\ IdleStatus
  /\ IdlePoll
  /\ rPc = "start"
  /\ rParser \in Parsers
  /\ rText \in ParserTexts
  /\ rLines = <<>>
  /\ rVendor = NoVendor
  /\ rFound = NothingFound
  /\ rResult = Undefined

\* text.split('\n'), without the blank lines
SplitText ==
  /\ rPc = "start"
  /\ rLines' = IF rParser = "intelligent" THEN TrimmedLines(rText)
               ELSE NonBlankLines(rText)
  /\ rPc' = "vendor"
  /\ UNCHANGED <<rParser, rText, rVendor, rFound, rResult>>
  /\ UNCHANGED <<priceVars, bedrockVars, dynamoVars, categoryVars, clientVars>>

\* the first pass
ExtractVendor ==
  /\ rPc = "vendor"
  /\ rVendor' = IF rParser = "intelligent" THEN VendorPass(rLines, 0, NoVendor)
                ELSE [vendor |-> SimpleVendor(rLines), confidence |-> 0]
  /\ rPc' = IF rParser = "intelligent" THEN "date" ELSE "scan"
  /\ UNCHANGED <<rParser, rText, rLines, rFound, rResult>>
  /\ UNCHANGED <<priceVars, bedrockVars, dynamoVars, categoryVars, clientVars>>

\* the second pass of parseReceiptTextIntelligent
ExtractDate ==
  /\ rPc = "date"
  /\ rFound' = [rFound EXCEPT !.date = DatePass(rLines, 1)]
  /\ rPc' = "amounts"
  /\ UNCHANGED <<rParser, rText, rLines, rVendor, rResult>>
  /\ UNCHANGED <<priceVars, bedrockVars, dynamoVars, categoryVars, clientVars>>

\* its third pass
ExtractAmounts ==
  /\ rPc = "amounts"
  /\ LET amounts == FinancialPass(rLines, 1, NoAmounts)
     IN  rFound' = [rFound EXCEPT !.total = amounts.total,
                                  !.subtotal = amounts.subtotal,
                                  !.tax = amounts.tax]
  /\ rPc' = "items"
  /\ UNCHANGED <<rParser, rText, rLines, rVendor, rResult>>
  /\ UNCHANGED <<priceVars, bedrockVars, dynamoVars, categoryVars, clientVars>>

\* its fourth pass; the fifth follows when no item was found
ExtractItems ==
  /\ rPc = "items"
  /\ rFound' = [rFound EXCEPT !.items = ItemPass(rLines, 1)]
  /\ rPc' = IF Len(rFound'.items) = 0 THEN "fallback" ELSE "return"
  /\ UNCHANGED <<rParser, rText, rLines, rVendor, rResult>>
  /\ UNCHANGED <<priceVars, bedrockVars, dynamoVars, categoryVars, clientVars>>

\* the second pass of parseReceiptText
ScanLines ==
  /\ rPc = "scan"
  /\ rFound' = SimpleScan(rLines, 1, NothingFound)
  /\ rPc' = IF Len(rFound'.items) = 0 THEN "fallback" ELSE "return"
  /\ UNCHANGED <<rParser, rText, rLines, rVendor, rResult>>
  /\ UNCHANGED <<priceVars, bedrockVars, dynamoVars, categoryVars, clientVars>>

\* the pass that looks again for items with looser rules
FallbackItems ==
  /\ rPc = "fallback"
  /\ rFound' = [rFound EXCEPT !.items =
                  IF rParser = "intelligent" THEN FallbackPass(rLines, 1)
                  ELSE SimpleFallback(rLines, 1)]
  /\ rPc' = "return"
  /\ UNCHANGED <<rParser, rText, rLines, rVendor, rResult>>
  /\ UNCHANGED <<priceVars, bedrockVars, dynamoVars, categoryVars, clientVars>>

ReturnReceipt ==
  /\ rPc = "return"
  /\ rResult' = IF rParser = "intelligent"
                THEN IntelligentReceipt(rVendor, rFound.date, rFound, rFound.items)
                ELSE SimpleReceipt(rVendor.vendor, rFound, rFound.items)
  /\ rPc' = "done"
  /\ UNCHANGED <<rParser, rText, rLines, rVendor, rFound>>
  /\ UNCHANGED <<priceVars, bedrockVars, dynamoVars, categoryVars, clientVars>>

NextParser ==
  \/ SplitText
  \/ ExtractVendor
  \/ ExtractDate
  \/ ExtractAmounts
  \/ ExtractItems
  \/ ScanLines
  \/ FallbackItems
  \/ ReturnReceipt

SpecParser == InitParser /\ [][NextParser]_vars

(***************************************************************************)
(* The one-pass parseReceiptText of the upload handler and of the page     *)
(***************************************************************************)
\* /\b\d{1,2}[\/-]\d{1,2}[\/-]\d{2,4}\b/
shortDatePattern ==
  Re(Cat(<<Wb, Rep(D, 1, 2), Cs({"/", "-"}), Rep(D, 1, 2), Cs({"/", "-"}),
    Rep(D, 2, 4), Wb>>))
\* /total.*?(\$?\d+\.\d{2})/i
looseTotalPattern ==
  Rei(Cat(<<Lit(<<"t", "o", "t", "a", "l">>), LazyStar(NCs({"\n", "\r"})),
    Grp(1, Cat(<<Opt(Ch("$")), Plus(D), Ch("."), Rep(D, 2, 2)>>))>>))

NoItemsFound == <<"N", "o", " ", "i", "t", "e", "m", "s", " ", "f", "o", "u", "n", "d">>

(* RegExp.prototype.test of a pattern with the g flag: the search begins at
   lastIndex (counted from 0), which a match moves to its end and a failure
   resets to 0. *)
TestGlobal(re, s, lastIndex) ==
  LET Outcome(m) ==
        [found |-> m.found, lastIndex |-> IF m.found THEN m.e - 1 ELSE 0]
  IN  IF lastIndex > Len(s) THEN [found |-> FALSE, lastIndex |-> 0]
      ELSE Outcome(ExecFrom(re, s, lastIndex + 1))

\* nothing found yet; lastIndex is that of pricePattern, /\$?\d+\.\d{2}/g
NothingScanned ==
  [vendor |-> Null, date |-> Null, total |-> Null, items |-> <<>>, lastIndex |-> 0]

\* if (!vendor && line.length > 3 && !datePattern.test(line) && !pricePattern.test(line))
VendorStep(line, found) ==
  IF found.vendor = Null /\ Len(line) > 3 /\ ~Test(shortDatePattern, line)
  THEN LET Tested(price) ==
             [found EXCEPT !.lastIndex = price.lastIndex,
                           !.vendor = IF price.found THEN Null ELSE Str(Trim(line))]
       IN  Tested(TestGlobal(pricePattern, line, found.lastIndex))
  ELSE found

\* if (!date && datePattern.test(line))
DateStep(line, found) ==
  IF found.date = Null /\ Test(shortDatePattern, line)
  THEN [found EXCEPT !.date = Str(Matched(line, Match(shortDatePattern, line)))]
  ELSE found

\* if (!total && totalPattern.test(line))
TotalStep(line, found) ==
  IF found.total = Null /\ Test(looseTotalPattern, line)
  THEN [found EXCEPT !.total = Str(Group(line, Match(looseTotalPattern, line), 1))]
  ELSE found

\* if (pricePattern.test(line) && !totalPattern.test(line)) items.push(line.trim())
ItemStep(line, found) ==
  LET Tested(price) ==
        [found EXCEPT !.lastIndex = price.lastIndex,
                      !.items = IF price.found /\ ~Test(looseTotalPattern, line)
                                THEN Append(@, Str(Trim(line))) ELSE @]
  IN  Tested(TestGlobal(pricePattern, line, found.lastIndex))

\* the body of the loop
ScanLine(line, found) ==
  ItemStep(line, TotalStep(line, DateStep(line, VendorStep(line, found))))

RECURSIVE ScanFrom(_, _, _)
ScanFrom(lines, i, found) ==
  IF i > Len(lines) THEN found
  ELSE ScanFrom(lines, i + 1, ScanLine(lines[i], found))

ScannedReceipt(found) ==
  Obj(kVendor :> Or(found.vendor, Str(Unknown))
      @@ kDate :> Or(found.date, Str(Unknown))
      @@ kTotal :> Or(found.total, Str(Unknown))
      @@ kItems :> Arr(IF Len(found.items) > 0 THEN found.items
                       ELSE <<Str(NoItemsFound)>>))

parseReceiptTextOnePass(text) ==
  ScannedReceipt(ScanFrom(NonBlankLines(text), 1, NothingScanned))

\* the texts of the other parsers, and the receipts of three of the few lines
ReceiptLines == 3

OnePassTexts ==
  ParserTexts \cup {JoinLines(lines, 1) : lines \in [1..ReceiptLines -> FewLines]}

InitOnePass ==
  /\ IdlePrice
  /\ IdleBedrock
  /\ IdleDynamo
  /\ IdleCategory
  /\ IdleStatus
  /\ IdlePoll
  /\ rPc = "start"
  /\ rParser = "onepass"
  /\ rText \in OnePassTexts
  /\ rLines = <<>>
  /\ rVendor = NoVendor
  /\ rFound = NothingScanned
  /\ rResult = Undefined

\* text.split('\n').filter(line => line.trim())
SplitOnePass ==
  /\ rPc = "start"
  /\ rLines' = NonBlankLines(rText)
  /\ rPc' = "scan"
  /\ UNCHANGED <<rParser, rText, rVendor, rFound, rResult>>
  /\ UNCHANGED <<priceVars, bedrockVars, dynamoVars, categoryVars, clientVars>>

\* the loop over the lines
ScanOnePass ==
  /\ rPc = "scan"
  /\ rFound' = ScanFrom(rLines, 1, rFound)
  /\ rPc' = "return"
  /\ UNCHANGED <<rParser, rText, rLines, rVendor, rResult>>
  /\ UNCHANGED <<priceVars, bedrockVars, dynamoVars, categoryVars, clientVars>>

ReturnOnePass ==
  /\ rPc = "return"
  /\ rResult' = ScannedReceipt(rFound)
  /\ rPc' = "done"
  /\ UNCHANGED <<rParser, rText, rLines, rVendor, rFound>>
  /\ UNCHANGED <<priceVars, bedrockVars, dynamoVars, categoryVars, clientVars>>

NextOnePass ==
  \/ SplitOnePass
  \/ ScanOnePass
  \/ ReturnOnePass

SpecOnePass == InitOnePass /\ [][NextOnePass]_vars

(***************************************************************************)
(* The page: the click on the process button and pollForResults            *)
(***************************************************************************)
maxAttempts == 30

\* a fetch that throws, or a body that is no object
FetchError == [status |-> "error", data |-> FALSE]

NoResponse == [status |-> "none", data |-> FALSE]

\* what a poll can get: a status (or none, "") with or without data
PollResponses ==
  [status : {"COMPLETED", "FAILED", "PROCESSING", ""}, data : BOOLEAN]
    \cup {FetchError}

\* poll with the catch that schedules a poll whatever the attempts are
PollOutcomeRetrying(response, attempts) ==
  LET caught == "waiting"
  IN  IF response.status = "error" THEN caught
      ELSE IF response.status = "COMPLETED" /\ response.data THEN "completed"
      ELSE IF response.status = "FAILED" THEN caught
      ELSE IF response.status = "PROCESSING" /\ attempts < maxAttempts THEN "waiting"
      ELSE IF attempts >= maxAttempts THEN caught
      ELSE "waiting"

(* Where poll leaves the page after a response: "completed" (the receipt is
   about to be displayed), "waiting" (setTimeout(poll, 10000)) or "rejected"
   (the error thrown again by the catch, which nothing handles). *)
PollOutcome(response, attempts) ==
  LET caught == IF attempts < maxAttempts THEN "waiting" ELSE "rejected"
  IN  IF response.status = "error" THEN caught
      ELSE IF response.status = "COMPLETED" /\ response.data THEN "completed"
      ELSE IF response.status = "FAILED" THEN caught
      ELSE IF response.status = "PROCESSING" /\ attempts < maxAttempts THEN "waiting"
      ELSE IF attempts >= maxAttempts THEN caught
      ELSE "waiting"

InitPoll ==
  /\ IdlePrice
  /\ IdleBedrock
  /\ IdleDynamo
  /\ IdleParser
  /\ IdleCategory
  /\ IdleStatus
  /\ fPc = "start"
  /\ fAttempts = 0
  /\ fFetches = 0
  /\ fStatus = NoResponse
  /\ fView = "progress"

(* The click handler after the progress view is put up: the image is read and
   posted; pollForResults is called when the answer has success and a
   receiptId, and every failure before that is shown by the catch. *)
StartProcessing ==
  /\ fPc = "start"
  /\ \E started \in BOOLEAN :
       IF started
       THEN fPc' = "waiting" /\ fView' = fView
       ELSE fPc' = "stopped" /\ fView' = "error"
  /\ UNCHANGED <<fAttempts, fFetches, fStatus>>
  /\ UNCHANGED <<priceVars, bedrockVars, dynamoVars, parserVars, categoryVars, statusVars>>

\* poll, run by its timer
Poll ==
  /\ fPc = "waiting"
  /\ fAttempts' = fAttempts + 1
  /\ fFetches' = fFetches + 1
  /\ \E response \in PollResponses :
       /\ fStatus' = response
       /\ fPc' = PollOutcome(response, fAttempts')
  /\ UNCHANGED fView
  /\ UNCHANGED <<priceVars, bedrockVars, dynamoVars, parserVars, categoryVars, statusVars>>

\* displayReceiptData, run by its timer a second after the last poll
DisplayReceipt ==
  /\ fPc = "completed"
  /\ fPc' = "shown"
  /\ fView' = "receipt"
  /\ UNCHANGED <<fAttempts, fFetches, fStatus>>
  /\ UNCHANGED <<priceVars, bedrockVars, dynamoVars, parserVars, categoryVars, statusVars>>

NextPoll == StartProcessing \/ Poll \/ DisplayReceipt

SpecPoll == InitPoll /\ [][NextPoll]_vars

\* the timers fire and the handlers run
SpecPollFair == SpecPoll /\ WF_vars(NextPoll)

(***************************************************************************)
(* A categorizer applied to a name                                         *)
(***************************************************************************)
NameWords ==
  {<<"W", "a", "l", "m", "a", "r", "t">>, <<"S", "u", "p", "e", "r", "c", "e", "n", "t", "e", "r">>, <<"P", "I", "Z", "Z", "A">>, <<"S", "h", "e", "l", "l">>, <<"C", "a", "f", "e">>, <<"S", "t", "o", "r", "e">>, <<"M", "a", "r", "k", "e", "t">>,
   <<"C", "V", "S">>, <<"B", "i", "z">>, <<"T", "o", "t", "a", "l", "l", "y">>, <<"U", "n", "k", "n", "o", "w", "n">>, <<"H", "a", "r", "d", "w", "a", "r", "e">>}

\* the most words of a name, the examples apart
MaxWords == 2

RECURSIVE JoinWords(_, _)
JoinWords(words, i) ==
  IF i > Len(words) THEN <<>>
  ELSE (IF i > 1 THEN <<" ">> ELSE <<>>) \o words[i] \o JoinWords(words, i + 1)

WalmartSupercenter == <<"W", "a", "l", "m", "a", "r", "t", " ", "S", "u", "p", "e", "r", "c", "e", "n", "t", "e", "r">>
TotallyUnknownBiz == <<"T", "o", "t", "a", "l", "l", "y", " ", "U", "n", "k", "n", "o", "w", "n", " ", "B", "i", "z">>

\* names of words, the empty name, and what is not a name
CategoryInputs ==
  {Str(JoinWords(words, 1)) : words \in UNION {[1..n -> NameWords] : n \in 0..MaxWords}}
    \cup {Str(WalmartSupercenter), Str(TotallyUnknownBiz)}
    \cup {Undefined, Null, Num(<<"7">>)}

Categorizers == {"determineCategory", "determineReceiptCategory"}

InitCategory ==
  /\ IdlePrice
  /\ IdleBedrock
  /\ IdleDynamo
  /\ IdleParser
  /\ IdleStatus
  /\ IdlePoll
  /\ cPc = "start"
  /\ cFunction \in Categorizers
  /\ cName \in CategoryInputs
  /\ cCategory = ""

Categorize ==
  /\ cPc = "start"
  /\ cCategory' = IF cFunction = "determineCategory" THEN determineCategory(cName)
                  ELSE determineReceiptCategory(cName)
  /\ cPc' = "done"
  /\ UNCHANGED <<cFunction, cName>>
  /\ UNCHANGED <<priceVars, bedrockVars, dynamoVars, parserVars, clientVars>>

NextCategory == Categorize

SpecCategory == InitCategory /\ [][NextCategory]_vars

(***************************************************************************)
(* Properties of the price normaliser                                      *)
(***************************************************************************)
HasNoDigit(s) == \A i \in 1..Len(s) : s[i] \notin Digits

\* the inputs C5 is about: null, undefined, the empty text, a text without a digit
NoNumericToken(v) ==
  \/ v \in {Null, Undefined}
  \/ IsStr(v) /\ HasNoDigit(v.s)

(* C5: cleanPrice never throws, and it returns "0.00" for a null, undefined
   or empty input and for every input in which no numeric token is found. *)
C5_CleanPriceTotal ==
  pStep # "start" =>
    /\ pOnce # TypeError
    /\ NoNumericToken(pInput) => pOnce = ZeroPrice

\* cleanPrice has returned "0.00" for "abc", and for null
C5_Witness ==
  /\ pStep = "once"
  /\ pInput \in {Str(<<"a", "b", "c">>), Null}
  /\ pOnce = ZeroPrice

(* C6: cleanPrice is idempotent: cleanPrice(cleanPrice(x)) = cleanPrice(x)
   for every input x. *)
C6_Idempotent == pStep = "twice" => pTwice = pOnce

\* what C7 says cleanPrice returns for a text: its first numeric token, taken
\* after the currency signs, commas and blanks are removed, with 2 decimals
FirstTokenPrice(s, tieUp) ==
  LET stripped == SelectSeq(s, LAMBDA c : c \notin CurrencySigns \cup {","} \cup Spaces)
      m == Match(NumberToken, stripped)
  IN  IF m.found THEN ToFixed2(ParseFloat(Matched(stripped, m)), tieUp)
      ELSE ZeroPrice

\* the text holds a numeric token, and a digit after it
SeveralTokens(s) ==
  LET stripped == SelectSeq(s, LAMBDA c : c \notin CurrencySigns \cup {","} \cup Spaces)
      m == Match(NumberToken, stripped)
  IN  m.found /\ ~HasNoDigit(Slice(stripped, m.e, Len(stripped) + 1))

(* C7: cleanPrice strips currency signs, thousands separators and blanks and
   then formats the FIRST numeric token only with 2 decimals; for a text with
   several tokens ("2 for 5.00") the result is the first token ("2.00"). *)
C7_FirstTokenOnly ==
  (pStep # "start" /\ IsStr(pInput) /\ SeveralTokens(pInput.s)) =>
    pOnce \in {FirstTokenPrice(pInput.s, tieUp) : tieUp \in BOOLEAN}

(***************************************************************************)
(* Properties of the Bedrock stage                                         *)
(***************************************************************************)
TextractOf(event) == event.textractResult

\* the model answered with a text from which no JSON could be taken
Unparseable == IsStr(bResponse) /\ ~ExtractJson(bResponse).ok

\* what the handler returns when it completes on the fallback record
FallbackResults ==
  { Completed(bVariant,
              enhanceParsedData(bVariant,
                                createFallbackData(bVariant, TextractOf(bEvent)),
                                TextractOf(bEvent), tieUp),
              TextractOf(bEvent)) : tieUp \in BOOLEAN }

(* C2: when the model's text holds no brace-delimited substring, or holds one
   that is not valid JSON, the handler does not raise: it returns a completed
   result whose ParsedReceipt is built from the fallback data, that is
   enhanceParsedData applied to createFallbackData of the OCR result. *)
C2_UnparseableFallsBack ==
  (bPc = "done" /\ Unparseable) =>
    /\ ~bResult.raised
    /\ bFellBack
    /\ bResult \in FallbackResults

\* the handler has returned on a text with a brace that is not JSON
C2_Witness ==
  /\ bPc = "done"
  /\ Unparseable
  /\ Match(BraceDelimited, bResponse.s).found
  /\ bResult.status = "BEDROCK_COMPLETED"
  /\ HasLength(Get(bResult.parsedData, kItems))

\* the call of the model threw inside the handler
ModelCallThrew == bPc = "done" /\ bError = "model call failed"

(* C3 as stated: when the call of an external collaborator throws, the failure
   propagates out of the stage, which neither swallows it nor puts a
   ParsedReceipt in its place. *)
C3_FailurePropagates ==
  ModelCallThrew => bResult.raised /\ bResult.parsedData = Undefined

(* C3 amended: when the call of the model throws, the handler catches the
   error and returns, without raising, a result with the status
   BEDROCK_FAILED (Nova) or BEDROCK_FALLBACK (Claude), the error's message,
   and the record of createFallbackData as its ParsedReceipt. *)
C3_FailureSwallowed ==
  ModelCallThrew =>
    /\ ~bResult.raised
    /\ bResult.status = (IF bVariant = "nova" THEN "BEDROCK_FAILED"
                         ELSE "BEDROCK_FALLBACK")
    /\ bResult.error = bError
    /\ bResult.parsedData = createFallbackData(bVariant, TextractOf(bEvent))

\* the model call threw for a receipt whose OCR result has fields and items
C3_Witness ==
  /\ ModelCallThrew
  /\ CountKeys(Get(TextractOf(bEvent), kSummaryFields)) > 0
  /\ HasLength(Get(bResult.parsedData, kItems))

\* merchant, date, total, subtotal, tax and items of a record
ReceiptFields == {kMerchant, kDate, kTotal, kSubtotal, kTax, kItems}
Projected(parsedData) == [k \in ReceiptFields |-> Get(parsedData, k)]

\* the text has neither an opening nor a closing brace
NoBraces(s) == \A i \in 1..Len(s) : s[i] \notin {"{", "}"}

(* C8: for a response without any brace, the ParsedReceipt the Claude handler
   returns equals, on merchant, date, total, subtotal, tax and items, the
   record createFallbackData returns for the same OCR result. *)
C8_FallbackReturnedAsIs ==
  (/\ bPc = "done"
   /\ bVariant = "claude"
   /\ IsStr(bResponse)
   /\ NoBraces(bResponse.s)
   /\ bResult.status = "BEDROCK_COMPLETED") =>
    Projected(bResult.parsedData)
      = Projected(createFallbackData(bVariant, TextractOf(bEvent)))

\* some substring of the text is a JSON object
HoldsObject(s) ==
  \E i \in 1..Len(s) : \E j \in i + 1..Len(s) :
    s[i] = "{" /\ s[j] = "}" /\ JsonParse(Slice(s, i, j + 1)).ok

\* the model's text is one well-formed JSON object inside prose
OneObjectInProse ==
  /\ IsStr(bResponse)
  /\ bPc \in {"enhance", "done"}
  /\ JsonParse(bModel.json).ok
  /\ ~HoldsObject(bModel.pre)
  /\ ~HoldsObject(bModel.post)

\* the handler took exactly the object's text and parsed it
ExtractedExactly ==
  /\ Matched(bResponse.s, Match(BraceDelimited, bResponse.s)) = bModel.json
  /\ bParsed = JsonParse(bModel.json).v
  /\ ~bFellBack

(* C10 as stated: for a response that holds exactly one well-formed JSON
   object, possibly surrounded by prose, the handler extracts exactly that
   object's text, its parse equals the direct parse of the object, and the
   fallback is not taken. *)
C10_ExtractsTheObject == OneObjectInProse => ExtractedExactly

(* C10 amended: the same, provided the prose before the object holds no
   opening brace and the prose after it no closing brace; the pattern is
   greedy and spans from the first "{" of the text to its last "}". *)
C10_ExtractsBetweenOuterBraces ==
  (/\ OneObjectInProse
   /\ "{" \notin Range(bModel.pre)
   /\ "}" \notin Range(bModel.post)) => ExtractedExactly

\* an object with nested objects was taken out of the prose around it
C10_Witness ==
  /\ OneObjectInProse
  /\ bModel.json = JsonFull
  /\ bModel.pre = ProseBefore
  /\ bModel.post = ProseAfter
  /\ ExtractedExactly

\* the summary field of a type, under the key the OCR stage of the variant writes
SummaryField(type) ==
  Get(Get(TextractOf(bEvent), kSummaryFields),
      IF bVariant = "nova" THEN ToLowerCase(type) ELSE type)

\* the handler completed on the fallback record, the model's text giving no JSON
FellBackOnText ==
  /\ bPc = "done"
  /\ Unparseable
  /\ bResult.status = "BEDROCK_COMPLETED"
  /\ IsStr(Get(TextractOf(bEvent), kRawText))

\* parseReceiptTextIntelligent of the raw text of the OCR result
HeuristicParse == parseReceiptTextIntelligent(Get(TextractOf(bEvent), kRawText).s)

(* C9 as stated: when the model's text gives no parseable JSON and the summary
   fields give no vendor, date or total, the returned record has that field
   from the heuristic parse of the raw text (the total as cleanPrice writes
   it), the parse's own default standing only when it finds nothing. *)
C9_FallbackUsesHeuristicParse ==
  FellBackOnText =>
    /\ ~Truthy(SummaryField(VENDOR_NAME)) =>
         Get(bResult.parsedData, kMerchant) = Get(HeuristicParse, kVendor)
    /\ ~Truthy(SummaryField(INVOICE_RECEIPT_DATE)) =>
         Get(bResult.parsedData, kDate) = Get(HeuristicParse, kDate)
    /\ ~Truthy(SummaryField(TOTAL)) =>
         \E tieUp \in BOOLEAN :
           Get(bResult.parsedData, kTotal)
             = cleanPrice(bVariant, Get(HeuristicParse, kTotal), tieUp)

(* C9 amended: when the model's text gives no parseable JSON and the summary
   fields give no vendor, date or total, the returned record has the default
   for that field whatever the raw text holds: the merchant "Unknown Store"
   (Nova) or "Unknown Vendor" (Claude), the date of the run, the total "0.00". *)
C9_FallbackUsesDefaults ==
  FellBackOnText =>
    /\ ~Truthy(SummaryField(VENDOR_NAME)) =>
         Get(bResult.parsedData, kMerchant)
           = Str(IF bVariant = "nova" THEN UnknownStore ELSE UnknownVendor)
    /\ ~Truthy(SummaryField(INVOICE_RECEIPT_DATE)) =>
         Get(bResult.parsedData, kDate)
           = Str(IF bVariant = "nova" THEN TodayIso ELSE TodayUs)
    /\ ~Truthy(SummaryField(TOTAL)) =>
         Get(bResult.parsedData, kTotal) = Str(ZeroPrice)

\* the fallback was taken on a receipt whose raw text names its vendor, its date
\* and its total, none of them among the summary fields
C9_Witness ==
  /\ FellBackOnText
  /\ \A type \in {VENDOR_NAME, INVOICE_RECEIPT_DATE, TOTAL} : ~Truthy(SummaryField(type))
  /\ Get(TextractOf(bEvent), kRawText) = Str(JoinLines(SampleLines, 1))
  /\ Get(HeuristicParse, kVendor) = Str(<<"A", "C", "M", "E", " ", "M", "A", "R", "K", "E", "T">>)
  /\ Get(bResult.parsedData, kMerchant) # Get(HeuristicParse, kVendor)

\* the handler returned a result, on whichever path
Returned == bPc = "done" /\ ~bResult.raised

\* a text of at least one character
NonEmptyText(v) == IsStr(v) /\ v.s # <<>>

(* C11: every ParsedReceipt the handler returns has a non-empty merchant: where
   the model's JSON or the fallback data has no merchant, a null one or an
   empty one, the returned merchant is the default text. *)
C11_MerchantNeverEmpty ==
  Returned => NonEmptyText(Get(bResult.parsedData, kMerchant))

\* the handler completed: on the model's JSON or on the fallback record
CompletedReceipt == bPc = "done" /\ bResult.status = "BEDROCK_COMPLETED"

\* a decimal text with exactly 2 fractional digits: digits, a point, 2 digits
DecimalText(v) ==
  /\ IsStr(v)
  /\ Len(v.s) >= 4
  /\ \A i \in 1..Len(v.s) :
       IF i = Len(v.s) - 2 THEN v.s[i] = "." ELSE v.s[i] \in Digits

(* C12: every ParsedReceipt the handler returns, on the model's JSON or on the
   fallback record, has a total that is a decimal text with exactly 2
   fractional digits: a missing or non-numeric total is "0.00", and "12.5" or
   "$12.5" is "12.50". *)
C12_TotalHasTwoDecimals ==
  CompletedReceipt => DecimalText(Get(bResult.parsedData, kTotal))

calculateOverallConfidence(variant, parsedData, textractResult) ==
  IF variant = "nova" THEN CalculateOverallConfidenceNova(parsedData, textractResult)
  ELSE CalculateOverallConfidenceClaude(parsedData, textractResult)

\* the top of the scale: 1.0 in ten-thousandths, or 100 percent
FullConfidence(variant) == IF variant = "nova" THEN 10000 ELSE 100

\* the forms a field has when its signal is missing: absent, or the default
MissingForms(variant) ==
  [merchant |-> {Undefined, Str(IF variant = "nova" THEN UnknownStore ELSE UnknownVendor)},
   date |-> {Undefined, Str(IF variant = "nova" THEN TodayIso ELSE TodayUs)},
   total |-> {Undefined, Str(ZeroPrice)},
   items |-> {Undefined, Arr(<<>>)}]

\* a form in which the signal of the field is there
FoundForms ==
  [merchant |-> {Str(AcmeFoods)},
   date |-> {Str(ReceiptDay)},
   total |-> {Str(<<"7", ".", "0", "1">>)},
   items |-> {Arr(<<Obj(kName :> Str(Milk))>>)}]

SignalKey(signal) ==
  CASE signal = "merchant" -> kMerchant
    [] signal = "date" -> kDate
    [] signal = "total" -> kTotal
    [] signal = "items" -> kItems

\* the scores of the receipts that differ from this one in one field, whose
\* signal is taken away, and of the same receipt without structured fields
ScoresWithout(variant, parsedData, textractResult) ==
  UNION { { calculateOverallConfidence(variant,
                                       Put(parsedData, SignalKey(signal), form),
                                       textractResult) :
              form \in MissingForms(variant)[signal] } :
          signal \in {"merchant", "date", "total", "items"} }
    \cup { calculateOverallConfidence(variant, parsedData,
                                      Put(textractResult, kSummaryFields, fields)) :
             fields \in {Undefined, Obj(<<>>)} }

\* the scores of the receipts that differ from this one in one field, whose
\* signal is added, and of the same receipt with a structured field
ScoresWith(variant, parsedData, textractResult) ==
  UNION { { calculateOverallConfidence(variant,
                                       Put(parsedData, SignalKey(signal), form),
                                       textractResult) :
              form \in FoundForms[signal] } :
          signal \in {"merchant", "date", "total", "items"} }
    \cup { calculateOverallConfidence(
             variant, parsedData,
             Put(textractResult, kSummaryFields, Obj(kTotal :> Str(ZeroPrice)))) }

\* metadata.confidence of the record returned
StoredConfidence == Get(Get(bResult.parsedData, kMetadata), kConfidence).i

(* C14: the confidence score does not decrease when a signal is added, the OCR
   confidence being the same: the score of a returned receipt is at least the
   score of the receipt without its merchant, date, total, items or structured
   fields, at most the score of the receipt with one of them added, and within
   the scale, 0 to 1 (Nova) or 0 to 100 (Claude). *)
C14_ConfidenceMonotone ==
  CompletedReceipt =>
    /\ StoredConfidence
         = calculateOverallConfidence(bVariant, bResult.parsedData, TextractOf(bEvent))
    /\ StoredConfidence \in 0..FullConfidence(bVariant)
    /\ \A lower \in ScoresWithout(bVariant, bResult.parsedData, TextractOf(bEvent)) :
         lower <= StoredConfidence
    /\ \A higher \in ScoresWith(bVariant, bResult.parsedData, TextractOf(bEvent)) :
         StoredConfidence <= higher

\* a receipt with every signal was scored, and scores less without its merchant
C14_Witness ==
  /\ CompletedReceipt
  /\ StoredConfidence > 0
  /\ \A lower \in ScoresWithout(bVariant, bResult.parsedData, TextractOf(bEvent)) :
       lower < StoredConfidence

\* an amount with at most 2 decimals, in hundredths; -1 when it is no such amount
InHundredths(v) ==
  LET Whole(n) ==
        IF n.nan \/ n.neg \/ Len(n.fp) > 2 THEN -1
        ELSE DigitsToNat(n.ip \o n.fp \o [i \in 1..(2 - Len(n.fp)) |-> "0"])
  IN  IF v.t \in {"str", "num"} THEN Whole(ParseFloat(ToStr(v))) ELSE -1

\* the handler derived the lineTotal of the item i of the record it returned:
\* the record came from createFallbackData, or the item of the model's JSON
\* had no lineTotal
DerivedLineTotal(i) ==
  \/ bFellBack
  \/ ~Truthy(Get(Get(bParsed, kItems).a[i], kLineTotal))

(* C16: where the Claude handler derives the lineTotal of an item itself, the
   structured line item or the model's JSON giving none, the lineTotal of the
   returned item is its price times its quantity, also for a quantity above 1. *)
C16_LineTotalIsPriceTimesQuantity ==
  (CompletedReceipt /\ bVariant = "claude") =>
    \A i \in 1..Len(Get(bResult.parsedData, kItems).a) :
      LET item == Get(bResult.parsedData, kItems).a[i]
      IN  (DerivedLineTotal(i) /\ InHundredths(Get(item, kQuantity)) >= 0) =>
            InHundredths(Get(item, kLineTotal)) * 100
              = InHundredths(Get(item, kPrice)) * InHundredths(Get(item, kQuantity))

\* the text of the summary field of a type
SummaryValue(type) ==
  IF bVariant = "nova" THEN SummaryField(type) ELSE Get(SummaryField(type), kValue)

\* the record createFallbackData returned is at hand
Reconciled == bFellBack /\ bPc \in {"enhance", "done"}

(* C17: through the OCR stage and createFallbackData of one pipeline: when the
   OCR result holds a VENDOR_NAME, INVOICE_RECEIPT_DATE, TOTAL, SUBTOTAL or TAX
   summary field, the merchant, date, total, subtotal or tax of the record is
   that field's value, an amount as cleanPrice writes it, and not a default. *)
C17_SummaryFieldsPreferred ==
  Reconciled =>
    /\ Truthy(SummaryField(VENDOR_NAME)) =>
         Get(bParsed, kMerchant) = SummaryValue(VENDOR_NAME)
    /\ Truthy(SummaryField(INVOICE_RECEIPT_DATE)) =>
         Get(bParsed, kDate) = SummaryValue(INVOICE_RECEIPT_DATE)
    /\ \A amount \in {<<TOTAL, kTotal>>, <<SUBTOTAL, kSubtotal>>, <<TAX, kTax>>} :
         Truthy(SummaryField(amount[1])) =>
           \E tieUp \in BOOLEAN :
             Get(bParsed, amount[2])
               = Str(cleanPrice(bVariant, SummaryValue(amount[1]), tieUp))

(* C18: the confidence stored with a persisted receipt is the score the
   Confidence Scorer computes from the receipt's parsed record and the OCR
   stage's extraction, on every path through the Bedrock stage: the
   persistence stage never stores a fixed constant in its place. *)
C18_StoredConfidenceIsScored ==
  \A record \in dTable :
    Get(record, kConfidence)
      = IntV(calculateOverallConfidence(bVariant, bResult.parsedData, TextractOf(bEvent)))

(***************************************************************************)
(* Properties of the workflow and of the status endpoint                   *)
(***************************************************************************)
\* the OCR stage failed: what it returned holds no textractResult
TextractFailed == ~Truthy(bEvent.textractResult)

(* C24: when the OCR stage of an execution fails, the failure is what the
   workflow ends with: the later stages store no receipt record for the
   receiptId, and the status endpoint does not answer COMPLETED for it. *)
C24_OcrFailureSurfaced ==
  TextractFailed =>
    /\ RecordsOf(dTable, Str(ReceiptId)) = {}
    /\ sPc = "done" => sResponse.status # "COMPLETED"

(***************************************************************************)
(* Properties of the page                                                  *)
(***************************************************************************)
\* the processing has ended in failure: FAILED was answered, or the
\* attempts ran out without a receipt
TerminalFailure ==
  \/ fStatus.status = "FAILED"
  \/ fAttempts >= maxAttempts /\ fPc \notin {"completed", "shown"}

(* C25: once the processing has started, a terminal failure (the status
   endpoint answers FAILED, or the polls reach their limit without a result)
   leads to the error message in place of the progress view, and no poll is
   scheduled once FAILED was answered. *)
C25_FailureShown ==
  /\ [](fStatus.status = "FAILED" => fPc # "waiting")
  /\ (TerminalFailure ~> fView = "error")

(* C29: pollForResults ends: whatever the answers are, fetch errors and
   answers without a status included, the status endpoint is fetched at most
   30 times, and after an answer with status COMPLETED and data no poll is
   scheduled. *)
C29_PollingEnds ==
  /\ fFetches <= maxAttempts
  /\ (fStatus.status = "COMPLETED" /\ fStatus.data) => fPc \in {"completed", "shown"}
  /\ fPc \in {"completed", "shown", "rejected", "stopped"} => ~ENABLED Poll

\* the limit is reached: the thirtieth poll was answered PROCESSING
C29_Witness ==
  /\ fFetches = maxAttempts
  /\ fStatus.status = "PROCESSING"
  /\ fPc = "rejected"

\* the request names a receipt that has no record, and an execution
OnlyExecutionTells ==
  /\ sPc = "done"
  /\ Truthy(sRequest.receiptId)
  /\ RecordsOf(dTable, sRequest.receiptId) = {}
  /\ sRequest.executionArn
  /\ sExecution.status \in ExecutionStatuses

(* C27: when the table holds no record of the receipt and an executionArn is
   given, the status handler answers FAILED with success false for every
   execution that ended without success (FAILED, TIMED_OUT, ABORTED), and
   PROCESSING only for an execution that is running. *)
C27_TerminalStatusesFail ==
  OnlyExecutionTells =>
    /\ sExecution.status \in {"FAILED", "TIMED_OUT", "ABORTED"} =>
         sResponse.status = "FAILED" /\ ~sResponse.success
    /\ sResponse.status = "PROCESSING" => sExecution.status = "RUNNING"

(* C28: the status handler answers COMPLETED for a receiptId only if a record
   of that receipt was written to the table; an execution whose DynamoDB
   stage returned DYNAMODB_FAILED is never answered as COMPLETED. *)
C28_CompletedOnlyIfStored ==
  (sPc = "done" /\ sResponse.status = "COMPLETED") =>
    /\ RecordsOf(dTable, Str(ReceiptId)) # {}
    /\ dResult.status # "DYNAMODB_FAILED"

(***************************************************************************)
(* Properties of the heuristic parsers                                     *)
(***************************************************************************)
\* a quantity that is a number and at least 1
AtLeastOne(quantity) ==
  /\ quantity.t = "num"
  /\ LET n == ParseFloat(quantity.n)
     IN  ~n.nan /\ ~n.neg /\ ~AllZero(n.ip)

(* C1: every record parseReceiptTextIntelligent returns has an items array, and
   every item of it has a quantity of at least 1: the placeholder item written
   when no item is detected and an item whose quantity comes from a leading
   quantity marker included. *)
C1_QuantitiesAtLeastOne ==
  (rPc = "done" /\ rParser = "intelligent") =>
    LET items == Get(rResult, kItems)
    IN  /\ IsArray(items)
        /\ \A i \in 1..Len(items.a) : AtLeastOne(Get(items.a[i], kQuantity))

\* name, price and quantity of an item
Listed(item) == <<Get(item, kName), Get(item, kPrice), Get(item, kQuantity)>>

(* C4: of the text ACME MARKET / 01/15/2024 / MILK 3.99 / BREAD 2.50 /
   SUBTOTAL 6.49 / TAX 0.52 / TOTAL 7.01 a heuristic parser returns the vendor
   "ACME MARKET", the date "01/15/2024", the subtotal "6.49", the tax "0.52",
   the total "7.01" and two items, MILK at "3.99" and BREAD at "2.50", each
   of quantity 1, in that order. *)
C4_SampleReceipt ==
  (rPc = "done" /\ rText = SampleText) =>
    /\ Get(rResult, kVendor) = Str(SampleLines[1])
    /\ Get(rResult, kDate) = Str(ReceiptDay)
    /\ Get(rResult, kSubtotal) = Str(AmountA)
    /\ Get(rResult, kTax) = Str(AmountB)
    /\ Get(rResult, kTotal) = Str(<<"7", ".", "0", "1">>)
    /\ IsArray(Get(rResult, kItems))
    /\ [i \in 1..Len(Get(rResult, kItems).a) |-> Listed(Get(rResult, kItems).a[i])]
         = << <<Str(Milk), Str(<<"3", ".", "9", "9">>), Num(One)>>,
              <<Str(Bread), Str(<<"2", ".", "5", "0">>), Num(One)>> >>

\* YYYY-MM-DD or MM/DD/YYYY
CanonicalDate(v) ==
  /\ IsStr(v)
  /\ Len(v.s) = 10
  /\ \/ \A i \in 1..10 : IF i \in {5, 8} THEN v.s[i] = "-" ELSE v.s[i] \in Digits
     \/ \A i \in 1..10 : IF i \in {3, 6} THEN v.s[i] = "/" ELSE v.s[i] \in Digits

(* C13: the date of every record parseReceiptTextIntelligent returns is in
   canonical form, YYYY-MM-DD or MM/DD/YYYY, whatever form the date has in
   the text. *)
C13_DateIsCanonical ==
  (rPc = "done" /\ rParser = "intelligent") => CanonicalDate(Get(rResult, kDate))

\* the first ten lines, counted from 0, that the heuristics take as a vendor
VendorCandidates(lines) ==
  {i \in 0..9 : i < Len(lines) /\ VendorCandidate(lines[i + 1])}

\* no line of the first ten names a known store
NoKnownStore(lines) ==
  \A i \in 0..9 : i < Len(lines) => ~SomeTest(storePatterns, lines[i + 1])

(* C19: when none of the first 10 lines matches a known-chain pattern, the
   vendor parseReceiptTextIntelligent finds is the candidate line with the
   highest heuristic score among the first 10 lines: no candidate line scores
   higher than the line taken as the vendor. *)
C19_VendorHasHighestScore ==
  (/\ rParser = "intelligent"
   /\ rPc \notin {"start", "vendor"}
   /\ NoKnownStore(rLines)
   /\ VendorCandidates(rLines) # {}) =>
    \E i \in VendorCandidates(rLines) :
      /\ rVendor.vendor = Str(rLines[i + 1])
      /\ \A j \in VendorCandidates(rLines) :
           VendorScore(rLines[j + 1], j) <= VendorScore(rLines[i + 1], i)

\* the lines that hold a price: a price pattern or the amount of extractPrice
PriceLines(lines) ==
  {i \in 1..Len(lines) : SomeTest(pricePatterns, lines[i]) \/ Test(DollarAmount, lines[i])}

(* C20: the fourth pass of parseReceiptTextIntelligent makes one item of a
   line without a price and the price-like line after it, and none of that
   price again when it comes to the second line: the items it finds are never
   more than the lines that hold a price. *)
C20_ItemsWithinPriceLines ==
  (rParser = "intelligent" /\ rPc \in {"fallback", "return"}) =>
    Len(rFound.items) <= Cardinality(PriceLines(rLines))

\* the lines the item passes may take an item from
ItemLines(lines) == {i \in 1..Len(lines) : ~isNonItemLine(lines[i])}

\* the price the passes read in a line
PricesOf(line) == {LinePrice(line), extractPrice(line)} \ {Null}

(* C21: no item parseReceiptTextIntelligent returns takes its price from a
   line isNonItemLine classifies as a total, subtotal, tax, date, divider or
   header line: the price of every item is the price of a line that is not
   so classified. *)
C21_ItemsFromItemLines ==
  (rParser = "intelligent" /\ rPc = "return") =>
    \A k \in 1..Len(rFound.items) :
      \E i \in ItemLines(rLines) :
        Get(rFound.items[k], kPrice) \in PricesOf(rLines[i])

(* C22: every item the fourth pass of parseReceiptTextIntelligent finds has a
   name that is not empty, holds a letter, is not made of digits only and has
   fewer than 40 characters: a name of 40 characters or more is rejected. *)
C22_ItemNameIsValid ==
  (rParser = "intelligent" /\ rPc = "return" /\ Len(ItemPass(rLines, 1)) > 0) =>
    \A k \in 1..Len(rFound.items) :
      LET name == Get(rFound.items[k], kName).s
      IN  /\ Len(name) > 0
          /\ Test(AnyLetter, name)
          /\ ~Test(AllDigits, name)
          /\ Len(name) < 40

(* C22, as the source has it: every item the fourth pass finds has a name
   that is not empty, holds a letter, is not made of digits only and has at
   most 40 characters: a name of 41 characters or more is rejected, one of
   40 is accepted. *)
C22_ItemNameAtMost40 ==
  (rParser = "intelligent" /\ rPc = "return" /\ Len(ItemPass(rLines, 1)) > 0) =>
    \A k \in 1..Len(rFound.items) :
      LET name == Get(rFound.items[k], kName).s
      IN  /\ Len(name) > 0
          /\ Test(AnyLetter, name)
          /\ ~Test(AllDigits, name)
          /\ Len(name) <= 40

\* the fourth pass has taken an item whose name has 40 characters
C22_Witness ==
  /\ rParser = "intelligent"
  /\ rPc = "return"
  /\ Len(rFound.items) = 1
  /\ Len(Get(rFound.items[1], kName).s) = 40

\* the field of the record returned: what the passes found, or the default
FoundOr(found, key, default) ==
  Get(rResult, key) = IF Truthy(found) THEN found ELSE Str(default)

(* C23: for every text, the empty one included, the heuristic parser returns
   a record: a vendor, date or total no pass found is "Unknown Vendor", the
   day of the run, "Unknown"; when no pass found an item the items are the
   one placeholder "No items detected", which is never among found items. *)
C23_DefaultsWhenNotFound ==
  rPc = "done" =>
    /\ IsObj(rResult)
    /\ FoundOr(rVendor.vendor, kVendor, UnknownVendor)
    /\ FoundOr(rFound.date, kDate, TodayUs)
    /\ FoundOr(rFound.total, kTotal, UnknownTotal)
    /\ Get(rResult, kItems)
         = Arr(IF Len(rFound.items) = 0 THEN <<PlaceholderItem>> ELSE rFound.items)
    /\ Len(rFound.items) > 0 =>
         \A k \in 1..Len(rFound.items) :
           Get(rFound.items[k], kName) # Str(NoItemsDetected)

\* the lines with the label SUBTOTAL, and those with the label TOTAL
SubtotalLines(lines) ==
  {i \in 1..Len(lines) :
     \E label \in {<<"S", "U", "B", "T", "O", "T", "A", "L">>, <<"S", "U", "B", "-", "T", "O", "T", "A", "L">>} : StartsWith(ToUpperCase(lines[i]), 1, label)}

TotalLines(lines) ==
  {i \in 1..Len(lines) : StartsWith(ToUpperCase(lines[i]), 1, <<"T", "O", "T", "A", "L">>)}

(* C26: the total the heuristic parsers find is not taken from a line with
   the label SUBTOTAL: it is the amount of a line without that label, and
   when a SUBTOTAL line comes before the TOTAL line the total is the amount
   of the TOTAL line and the subtotal that of the SUBTOTAL line. *)
C26_TotalNotFromSubtotal ==
  rPc = "done" =>
    /\ Truthy(rFound.total) =>
         \E i \in (1..Len(rLines)) \ SubtotalLines(rLines) :
           rFound.total = extractPrice(rLines[i])
    /\ \A i \in SubtotalLines(rLines), j \in TotalLines(rLines) :
         (i < j /\ \A k \in 1..(j - 1) : k = i \/ ~Test(AnyDigit, rLines[k])) =>
           /\ rFound.total = extractPrice(rLines[j])
           /\ rFound.subtotal = extractPrice(rLines[i])

\* the lines that hold a price and do not match the total pattern, in order
PricedLines(lines) ==
  SelectSeq(lines, LAMBDA line : Test(pricePattern, line) /\ ~Test(looseTotalPattern, line))

TrimmedStrings(lines) == [i \in 1..Len(lines) |-> Str(Trim(lines[i]))]

(* C30: the items of the one-pass parseReceiptText are the lines that hold a
   price and do not match the total pattern, each by its own content alone,
   in the order of the receipt. *)
C30_ItemsArePricedLines ==
  (rParser = "onepass" /\ rPc = "done") =>
    rFound.items = TrimmedStrings(PricedLines(rLines))

(***************************************************************************)
(* Properties of the categorizers                                          *)
(***************************************************************************)
\* the keyword lists of the categorizer applied
ListsOf(function) ==
  IF function = "determineCategory" THEN CategoryKeywords ELSE ReceiptCategoryKeywords

\* a keyword of the list i occurs in the name, lower-cased
Occurs(i) ==
  \E keyword \in ListsOf(cFunction)[i].keywords :
    Includes(ToLowerCase(cName.s), keyword)

(* C15: a categorizer returns, for a name, the category of the first keyword
   list, in list order, of which a keyword occurs in the lower-cased name, so
   that the earliest list wins when several match, and "Other" when no
   keyword occurs; "Walmart Supercenter" is Grocery and "Totally Unknown Biz"
   is "Other". *)
C15_FirstMatchingCategory ==
  (cPc = "done" /\ IsStr(cName)) =>
    /\ \A i \in 1..Len(ListsOf(cFunction)) :
         (Occurs(i) /\ \A j \in 1..(i - 1) : ~Occurs(j)) =>
           cCategory = ListsOf(cFunction)[i].category
    /\ (\A i \in 1..Len(ListsOf(cFunction)) : ~Occurs(i)) => cCategory = "Other"
    /\ cName.s = WalmartSupercenter => cCategory = "Grocery"
    /\ cName.s = TotallyUnknownBiz => cCategory = "Other"

\* a name with a restaurant's keyword before a grocery's was put under Grocery
C15_Witness ==
  /\ cPc = "done"
  /\ cFunction = "determineCategory"
  /\ cName = Str(<<"P", "I", "Z", "Z", "A", " ", "W", "a", "l", "m", "a", "r", "t">>)
  /\ Occurs(1) /\ Occurs(2)
  /\ cCategory = "Grocery"

=============================================================================
